---- MODULE Spec2Model ----
(***************************************************************************)
(* State-machine model of the MCP demo repository:                         *)
(*   - the tool registry (server/tools/__init__.py and                     *)
(*     streaming_server/tools/__init__.py): mcp_tool, discover_tools,      *)
(*     get_discovered_tools;                                               *)
(*   - the tool-call orchestrator (client/openai_client.py):               *)
(*     MCPClient.process_query;                                            *)
(*   - the universal client (client/universal_client.py);                  *)
(*   - the demo tool handlers (calculation.py, fibonacci.py,               *)
(*     data_processing.py).                                                *)
(* Python values: None is the empty tuple and a present optional value x   *)
(* is <<x>>; a str that the code inspects (strip, json.loads) is a         *)
(* sequence of one-character strings, any other str is a TLA+ string.      *)
(***************************************************************************)
EXTENDS Integers, Sequences, FiniteSets, TLC

VARIABLES
    \* ---- tool registry -------------------------------------------------
    variant,        \* "server" or "streaming": which tools package runs
    tools_dir,      \* module stem -> module body (the files of the tools folder)
    sys_modules,    \* Python's sys.modules: tool modules imported so far
    _mcp_tools,     \* the process-wide registry list
    d_pc,           \* position inside discover_tools: "idle", "loop", "exec"
    listing,        \* what is left of os.listdir(tools_dir) in the for loop
    cur_module,     \* module whose body import_module is executing
    cur_stmt,       \* index of the next top-level statement of that body
    attempted,      \* modules handed to import_module in the current pass
    failed,         \* modules whose import raised in the current pass
    ran,            \* modules whose body was executed in the current pass, in order
    passes,         \* number of discover_tools() calls started
    last_returned,  \* the list most recently returned to a caller
    \* ---- tool-call orchestrator (MCPClient) -----------------------------
    active,         \* the process_query callers of this run
    exit_stack,     \* "open" while the session is usable, "closed" after cleanup()
    task,           \* per caller: position in process_query and its locals
    \* ---- universal client (UniversalMCPClient) --------------------------
    u_session,      \* self.session: None or the ClientSession
    u_client_context, \* self.client_context: None or the transport context
    u_last,         \* the last method call: arguments, session calls, outcome
    \* ---- demo tool handlers ---------------------------------------------
    h_call,         \* the last handler call: tool, arguments, outcome, sleeps
    \* ---- mcp_tool applied on its own -----------------------------------
    m_call,         \* the last application of mcp_tool: arguments, registry
                    \* before it, value returned
    \* ---- callers of discover_tools and get_discovered_tools ------------
    held,           \* the returned lists that callers still hold
    \* ---- run_server and run_streaming_server ---------------------------
    s_pc,           \* position inside run_server / run_streaming_server
    s_discovered,   \* the local discovered_tools
    s_added,        \* the mcp.add_tool calls made so far, in order
    s_resources,    \* the resources registered with the server
    s_last,         \* the last request the running server answered
    \* ---- main of the universal client ----------------------------------
    um_pc,          \* position inside main
    um_args,        \* the parsed command line
    um_trace,       \* the client methods main has called, in order
    um_exc          \* the exception that left main's try block, if any

regVars == <<variant, tools_dir, sys_modules, _mcp_tools, d_pc, listing,
             cur_module, cur_stmt, attempted, failed, ran, passes, last_returned>>

queryVars == <<active, exit_stack, task>>

uniVars == <<u_session, u_client_context, u_last>>

toolVars == <<h_call>>

decVars == <<m_call>>

copyVars == <<held>>

serverVars == <<s_pc, s_discovered, s_added, s_resources, s_last>>

mainVars == <<um_pc, um_args, um_trace, um_exc>>

vars == <<regVars, queryVars, uniVars, toolVars, decVars, copyVars, serverVars, mainVars>>

nonRegVars == <<queryVars, uniVars, toolVars, decVars, copyVars, serverVars, mainVars>>

nonQueryVars == <<regVars, uniVars, toolVars, decVars, copyVars, serverVars, mainVars>>

nonUniVars == <<regVars, queryVars, toolVars, decVars, copyVars, serverVars, mainVars>>

nonToolVars == <<regVars, queryVars, uniVars, decVars, copyVars, serverVars, mainVars>>

nonDecVars == <<regVars, queryVars, uniVars, toolVars, copyVars, serverVars, mainVars>>

nonCopyVars == <<regVars, queryVars, uniVars, toolVars, decVars, serverVars, mainVars>>

nonRegCopyVars == <<queryVars, uniVars, toolVars, decVars, serverVars, mainVars>>

nonServerVars == <<regVars, queryVars, uniVars, toolVars, decVars, copyVars, mainVars>>

nonRegServerVars == <<queryVars, uniVars, toolVars, decVars, copyVars, mainVars>>

nonMainVars == <<regVars, queryVars, uniVars, toolVars, decVars, copyVars, serverVars>>

nonUniMainVars == <<regVars, queryVars, toolVars, decVars, copyVars, serverVars>>

-----------------------------------------------------------------------------
\* Python values

None == <<>>

Some(x) == <<x>>

\* Python truthiness of an Optional[str] whose str is a TLA+ string
TruthyName(v) == v # None /\ v[1] # ""

\* Python truthiness of an Optional[str] whose str is a character sequence
TruthyText(v) == v # None /\ v[1] # <<>>

Whitespace == {" ", "\n", "\t"}

RECURSIVE lstrip(_)
lstrip(s) == IF s # <<>> /\ Head(s) \in Whitespace THEN lstrip(Tail(s)) ELSE s

RECURSIVE rstrip(_)
rstrip(s) ==
    IF s # <<>> /\ s[Len(s)] \in Whitespace
    THEN rstrip(SubSeq(s, 1, Len(s) - 1))
    ELSE s

\* str.strip()
strip(s) == rstrip(lstrip(s))

-----------------------------------------------------------------------------
\* Bounds of the model

\* longest tool module body, in top-level statements
MaxStmts == 2

\* discover_tools() calls per process
MaxPasses == 2

\* tool-call requests in one completion response
MaxToolCalls == 2

-----------------------------------------------------------------------------
\* The tools folder

\* Directory entries as (stem, extension) pairs; filename[:-3] of a ".py"
\* entry is its stem.
PyFile(stem) == [stem |-> stem, ext |-> ".py"]

InitFile == PyFile("__init__")

ToolModules == {"calculation", "weather"}

DirEntries == {PyFile(m) : m \in ToolModules} \cup {InitFile}

\* filename.endswith(".py") and filename != "__init__.py"
IsToolFile(filename) == filename.ext = ".py" /\ filename # InitFile

\* module_name = f"server.tools.{filename[:-3]}"
ModuleName(filename) == filename.stem

\* A handler definition: __name__ and __doc__ of the decorated function.
Func(fname, doc) == [__name__ |-> fname, __doc__ |-> doc]

\* Top-level statements of a tool module.
\*   "bare":    @mcp_tool                      def f ...
\*   "factory": @mcp_tool(name=.., description=.., stream_enabled=..)  def f ...
\*   "raise":   a statement that raises an Exception
ToolStmt(kind, fname, doc, name, description, stream_enabled) ==
    [kind |-> kind, func |-> Func(fname, doc), name |-> name,
     description |-> description, stream_enabled |-> stream_enabled]

RaiseStmt == ToolStmt("raise", "", None, None, None, TRUE)

\* as in calculation.py: @mcp_tool async def add, with a docstring
StmtAdd == ToolStmt("bare", "add", Some(<<"A", "d", "d">>), None, None, TRUE)

\* as in weather.py: name and description supplied
StmtWeather ==
    ToolStmt("factory", "get_weather", Some(<<" ", "W", "\n">>),
             Some("get_weather"), Some(<<"G", "e", "t">>), TRUE)

\* a second handler registered under the name "add"; no docstring
StmtPlus == ToolStmt("factory", "plus", None, Some("add"), None, FALSE)

Stmts == {StmtAdd, StmtWeather, StmtPlus, RaiseStmt}

SeqsUpTo(S, n) == UNION {[1..k -> S] : k \in 0..n}

\* longer bodies: three registrations and a raise on the fourth statement,
\* a raise between registrations, three registrations
LongBodies ==
    { <<StmtAdd, StmtWeather, StmtPlus, RaiseStmt>>,
      <<StmtWeather, StmtAdd, RaiseStmt, StmtPlus>>,
      <<StmtWeather, StmtAdd, StmtPlus>> }

Bodies == SeqsUpTo(Stmts, MaxStmts) \cup LongBodies

Injective(s) == \A i, j \in DOMAIN s : s[i] = s[j] => i = j

\* every order os.listdir may return the entries in
Listings(S) == {s \in [1..Cardinality(S) -> S] : Injective(s)}

-----------------------------------------------------------------------------
\* mcp_tool

\* The handler object: the function a statement of module m defines.
Handler(m, stmt) ==
    [__module__ |-> m, __name__ |-> stmt.func.__name__, __doc__ |-> stmt.func.__doc__]

\* mutant: the docstring is stored as it is
descriptor_untrimmed(f, name, description, stream_enabled, var) ==
    LET tool_name == IF TruthyName(name) THEN name[1] ELSE f.__name__
        tool_description ==
            IF TruthyText(description) THEN description[1]
            ELSE IF f.__doc__ # None THEN f.__doc__[1] ELSE <<>>
    IN  IF var = "streaming"
        THEN [function |-> f, name |-> tool_name,
              description |-> tool_description, module |-> f.__module__,
              stream_enabled |-> stream_enabled, is_async |-> TRUE]
        ELSE [function |-> f, name |-> tool_name,
              description |-> tool_description, module |-> f.__module__]

\* the dictionary decorator(f) appends: the server registry stores function,
\* name, description and module, the streaming registry also stream_enabled
\* and is_async
descriptor(f, name, description, stream_enabled, var) ==
    LET tool_name == IF TruthyName(name) THEN name[1] ELSE f.__name__
        tool_description ==
            IF TruthyText(description) THEN description[1]
            ELSE strip(IF f.__doc__ # None THEN f.__doc__[1] ELSE <<>>)
    IN  IF var = "streaming"
        THEN [function |-> f, name |-> tool_name,
              description |-> tool_description, module |-> f.__module__,
              stream_enabled |-> stream_enabled, is_async |-> TRUE]
        ELSE [function |-> f, name |-> tool_name,
              description |-> tool_description, module |-> f.__module__]

\* mutant: a registration replaces an earlier descriptor of the same name
decorator_last_wins(reg, f, name, description, stream_enabled, var) ==
    LET d == descriptor(f, name, description, stream_enabled, var)
    IN  Append(SelectSeq(reg, LAMBDA x : x.name # d.name), d)

\* mutant: the descriptor is inserted at the front of the registry
decorator_prepend(reg, f, name, description, stream_enabled, var) ==
    <<descriptor(f, name, description, stream_enabled, var)>> \o reg

\* decorator(f): the registry after _mcp_tools.append({...})
decorator(reg, f, name, description, stream_enabled, var) ==
    Append(reg, descriptor(f, name, description, stream_enabled, var))

\* mutant: the decorator hands back a wrapper around the handler
decorator_returns_wrapper(f) == [__wrapped__ |-> f]

\* return f
decorator_returns(f) == f

\* mcp_tool(func, name=, description=, stream_enabled=): the registry after
\* the call and what the call returns: the handler itself when func is given,
\* the decorator (awaiting its handler) when func is None.
mcp_tool(reg, func, name, description, stream_enabled, var) ==
    IF func = None
    THEN [registry |-> reg, returns |-> "decorator"]
    ELSE [registry |-> decorator(reg, func[1], name, description, stream_enabled, var),
          returns |-> decorator_returns(func[1])]

\* The registry after executing one decorated definition of module m.
ExecStmt(reg, m, stmt, var) ==
    IF stmt.kind = "bare"
    THEN mcp_tool(reg, Some(Handler(m, stmt)), None, None, TRUE, var).registry
    ELSE LET made == mcp_tool(reg, None, stmt.name, stmt.description,
                              stmt.stream_enabled, var)
         IN  decorator(made.registry, Handler(m, stmt), stmt.name,
                       stmt.description, stmt.stream_enabled, var)

\* list.copy()
list_copy(l) == [i \in 1..Len(l) |-> l[i]]

\* mutant: the registry list itself is returned
returned_list_alias(by, reg) == [by |-> by, value |-> reg, fresh |-> FALSE]

\* return _mcp_tools.copy(): a new list object holding the same descriptors
returned_list(by, reg) == [by |-> by, value |-> list_copy(reg), fresh |-> TRUE]

-----------------------------------------------------------------------------
\* Callers of MCPClient.process_query and their initial state

AllTasks == {"main", "other"}

\* the message object of a completion response
Message(content, tool_calls) ==
    [role |-> "assistant", content |-> content, tool_calls |-> tool_calls]

NoMessage == Message(None, None)

\* a caller that is not inside process_query ("idle": main waits at input())
IdleTask ==
    [pc |-> "idle", query |-> "", tools |-> <<>>, assistant_message |-> NoMessage,
     messages |-> <<>>, idx |-> 0, final_message |-> NoMessage,
     outcome |-> [kind |-> "none", value |-> None],
     completions |-> <<>>, events |-> <<>>]

QueryIdle ==
    /\ active = {}
    /\ exit_stack = "open"
    /\ task = [t \in AllTasks |-> IdleTask]

\* no method of the universal client has been called
NoCall == [op |-> "none"]

\* UniversalMCPClient.__init__
UniIdle ==
    /\ u_session = None
    /\ u_client_context = None
    /\ u_last = NoCall

\* mcp_tool has not been applied outside a discovery pass
DecIdle == m_call = NoCall

\* no caller holds a returned list
CopiesIdle == held = <<>>

\* run_server has not been called
ServerIdle ==
    /\ s_pc = "start"
    /\ s_discovered = <<>>
    /\ s_added = <<>>
    /\ s_resources = {}
    /\ s_last = NoCall

\* the universal client's main is not running
UniMainIdle ==
    /\ um_pc = "idle"
    /\ um_args = None
    /\ um_trace = <<>>
    /\ um_exc = None

\* no tool handler has been called
ToolsIdle == h_call = NoCall

-----------------------------------------------------------------------------
\* discover_tools and get_discovered_tools

RegInit ==
    /\ variant \in {"server", "streaming"}
    /\ tools_dir \in [ToolModules -> Bodies]
    /\ sys_modules = {}
    /\ _mcp_tools = <<>>
    /\ d_pc = "idle"
    /\ listing = <<>>
    /\ cur_module = None
    /\ cur_stmt = 0
    /\ attempted = {}
    /\ failed = {}
    /\ ran = <<>>
    /\ passes = 0
    /\ last_returned = [by |-> "nobody", value |-> <<>>]
    /\ QueryIdle
    /\ UniIdle
    /\ ToolsIdle
    /\ UniMainIdle
    /\ ServerIdle
    /\ CopiesIdle
    /\ DecIdle

\* the registry of a process that runs no server (the client programs)
RegInitFixed ==
    /\ variant = "server"
    /\ tools_dir = [m \in ToolModules |-> <<>>]
    /\ sys_modules = {}
    /\ _mcp_tools = <<>>
    /\ d_pc = "idle"
    /\ listing = <<>>
    /\ cur_module = None
    /\ cur_stmt = 0
    /\ attempted = {}
    /\ failed = {}
    /\ ran = <<>>
    /\ passes = 0
    /\ last_returned = [by |-> "nobody", value |-> <<>>]

\* _mcp_tools.clear(); for filename in os.listdir(tools_dir)
DiscoverStart ==
    /\ d_pc = "idle"
    /\ passes < MaxPasses
    /\ \E order \in Listings(DirEntries) : listing' = order
    /\ _mcp_tools' = <<>>
    /\ d_pc' = "loop"
    /\ passes' = passes + 1
    /\ attempted' = {}
    /\ failed' = {}
    /\ ran' = <<>>
    /\ UNCHANGED <<nonRegVars, variant, tools_dir, sys_modules, cur_module, cur_stmt, last_returned>>

\* a directory entry the filter rejects
LoopSkip ==
    /\ d_pc = "loop"
    /\ listing # <<>>
    /\ ~IsToolFile(Head(listing))
    /\ listing' = Tail(listing)
    /\ UNCHANGED <<nonRegVars, variant, tools_dir, sys_modules, _mcp_tools, d_pc, cur_module,
                   cur_stmt, attempted, failed, ran, passes, last_returned>>

\* importlib.import_module of a module already in sys.modules: the cached
\* module is returned and its body is not executed again
ImportCached ==
    /\ d_pc = "loop"
    /\ listing # <<>>
    /\ IsToolFile(Head(listing))
    /\ ModuleName(Head(listing)) \in sys_modules
    /\ attempted' = attempted \cup {ModuleName(Head(listing))}
    /\ listing' = Tail(listing)
    /\ UNCHANGED <<nonRegVars, variant, tools_dir, sys_modules, _mcp_tools, d_pc, cur_module,
                   cur_stmt, failed, ran, passes, last_returned>>

\* importlib.import_module of a module not in sys.modules: its body starts
ImportBegin ==
    /\ d_pc = "loop"
    /\ listing # <<>>
    /\ IsToolFile(Head(listing))
    /\ ModuleName(Head(listing)) \notin sys_modules
    /\ attempted' = attempted \cup {ModuleName(Head(listing))}
    /\ ran' = Append(ran, ModuleName(Head(listing)))
    /\ cur_module' = Some(ModuleName(Head(listing)))
    /\ cur_stmt' = 1
    /\ d_pc' = "exec"
    /\ UNCHANGED <<nonRegVars, variant, tools_dir, sys_modules, _mcp_tools, listing, failed,
                   passes, last_returned>>

\* a decorated definition of the module body executes
ExecTool ==
    /\ d_pc = "exec"
    /\ cur_stmt <= Len(tools_dir[cur_module[1]])
    /\ tools_dir[cur_module[1]][cur_stmt].kind # "raise"
    /\ _mcp_tools' = ExecStmt(_mcp_tools, cur_module[1],
                              tools_dir[cur_module[1]][cur_stmt], variant)
    /\ cur_stmt' = cur_stmt + 1
    /\ UNCHANGED <<nonRegVars, variant, tools_dir, sys_modules, d_pc, listing, cur_module,
                   attempted, failed, ran, passes, last_returned>>

\* a statement of the module body raises: the import fails, the module is
\* not kept in sys.modules, and "except Exception" logs and goes on
ExecRaise ==
    /\ d_pc = "exec"
    /\ cur_stmt <= Len(tools_dir[cur_module[1]])
    /\ tools_dir[cur_module[1]][cur_stmt].kind = "raise"
    /\ failed' = failed \cup {cur_module[1]}
    /\ cur_module' = None
    /\ cur_stmt' = 0
    /\ listing' = Tail(listing)
    /\ d_pc' = "loop"
    /\ UNCHANGED <<nonRegVars, variant, tools_dir, sys_modules, _mcp_tools, attempted, ran,
                   passes, last_returned>>

\* the module body ends: the import succeeded and the module is cached
ExecDone ==
    /\ d_pc = "exec"
    /\ cur_stmt > Len(tools_dir[cur_module[1]])
    /\ sys_modules' = sys_modules \cup {cur_module[1]}
    /\ cur_module' = None
    /\ cur_stmt' = 0
    /\ listing' = Tail(listing)
    /\ d_pc' = "loop"
    /\ UNCHANGED <<nonRegVars, variant, tools_dir, _mcp_tools, attempted, failed, ran, passes,
                   last_returned>>

\* return _mcp_tools.copy()
DiscoverReturnStep ==
    /\ d_pc = "loop"
    /\ listing = <<>>
    /\ last_returned' = returned_list("discover_tools", _mcp_tools)
    /\ d_pc' = "idle"
    /\ UNCHANGED <<variant, tools_dir, sys_modules, _mcp_tools, listing, cur_module,
                   cur_stmt, attempted, failed, ran, passes>>

\* the caller does not keep the list
DiscoverReturn ==
    /\ DiscoverReturnStep
    /\ UNCHANGED nonRegVars

\* get_discovered_tools(): return _mcp_tools.copy()
GetDiscoveredToolsStep ==
    /\ d_pc = "idle"
    /\ last_returned' = returned_list("get_discovered_tools", _mcp_tools)
    /\ UNCHANGED <<variant, tools_dir, sys_modules, _mcp_tools, d_pc, listing,
                   cur_module, cur_stmt, attempted, failed, ran, passes>>

\* the caller does not keep the list
GetDiscoveredTools ==
    /\ GetDiscoveredToolsStep
    /\ UNCHANGED nonRegVars

RegNext ==
    \/ DiscoverStart
    \/ LoopSkip
    \/ ImportCached
    \/ ImportBegin
    \/ ExecTool
    \/ ExecRaise
    \/ ExecDone
    \/ DiscoverReturn
    \/ GetDiscoveredTools

SpecRegistry == RegInit /\ [][RegNext]_vars

-----------------------------------------------------------------------------
\* The collaborators of the orchestrator: what they may answer

Queries == {"what is 2+3", "weather in Paris"}

\* tools as session.list_tools() reports them
ServerTool(name, description, inputSchema) ==
    [name |-> name, description |-> description, inputSchema |-> inputSchema]

ToolListings ==
    { <<>>,
      <<ServerTool("add", "Add two numbers", {"a", "b"}),
        ServerTool("get_weather", "Get the weather for a given city", {"city"})>> }

\* A tool-call argument payload is the sequence of its JSON tokens.
JsonKeys == {"\"a\"", "\"b\""}

JsonNumbers == {"2", "3"}

KeyOf(tok) == IF tok = "\"a\"" THEN "a" ELSE "b"

NumberOf(tok) == IF tok = "2" THEN 2 ELSE 3

\* {"a": 2, "b": 3}
PayloadAB == <<"{", "\"a\"", ":", "2", ",", "\"b\"", ":", "3", "}">>

\* {"a": 2, "a": 3}
PayloadAA == <<"{", "\"a\"", ":", "2", ",", "\"a\"", ":", "3", "}">>

\* {}
PayloadEmpty == <<"{", "}">>

\* 2
PayloadNumber == <<"2">>

\* {"a": 2,      (cut short)
PayloadCut == <<"{", "\"a\"", ":", "2", ",">>

\* {"a" 2}       (colon missing)
PayloadNoColon == <<"{", "\"a\"", "2", "}">>

GoodPayloads == {PayloadAB, PayloadAA, PayloadEmpty, PayloadNumber}

BadPayloads == {PayloadCut, PayloadNoColon}

\* mutant: a payload that does not parse decodes to the empty mapping
json_loads_lenient(p) ==
    IF p = PayloadAB THEN [ok |-> TRUE, value |-> [a |-> 2, b |-> 3]]
    ELSE IF p = PayloadAA THEN [ok |-> TRUE, value |-> [a |-> 3]]
    ELSE IF p = PayloadNumber THEN [ok |-> TRUE, value |-> 2]
    ELSE [ok |-> TRUE, value |-> <<>>]

\* json.loads: a number, or an object of "key": number members (a repeated
\* key keeps its last value); anything else raises JSONDecodeError
json_loads(p) ==
    LET n == Len(p)
        k == (n - 1) \div 4
        IsObject ==
            /\ n >= 5
            /\ n = 4 * k + 1
            /\ p[1] = "{"
            /\ \A j \in 1..k :
                   /\ p[4 * j - 2] \in JsonKeys
                   /\ p[4 * j - 1] = ":"
                   /\ p[4 * j] \in JsonNumbers
                   /\ p[4 * j + 1] = (IF j = k THEN "}" ELSE ",")
        keys == {KeyOf(p[4 * j - 2]) : j \in 1..k}
        Last(key) == CHOOSE j \in 1..k :
                         /\ KeyOf(p[4 * j - 2]) = key
                         /\ \A i \in 1..k : KeyOf(p[4 * i - 2]) = key => i <= j
    IN  IF n = 1 /\ p[1] \in JsonNumbers
        THEN [ok |-> TRUE, value |-> NumberOf(p[1])]
        ELSE IF p = <<"{", "}">>
        THEN [ok |-> TRUE, value |-> <<>>]
        ELSE IF IsObject
        THEN [ok |-> TRUE, value |-> [key \in keys |-> NumberOf(p[4 * Last(key)])]]
        ELSE [ok |-> FALSE, value |-> "JSONDecodeError"]

\* a tool-call request of a completion response
ToolCall(id, name, arguments) ==
    [id |-> id, function |-> [name |-> name, arguments |-> arguments]]

ToolCalls ==
    { ToolCall("call_1", "add", PayloadAB),
      ToolCall("call_2", "get_weather", PayloadEmpty),
      ToolCall("call_2", "add", PayloadAA),
      ToolCall("call_3", "add", PayloadCut),
      ToolCall("call_4", "nosuchtool", PayloadNumber),
      ToolCall("call_5", "add", PayloadNoColon) }

Contents == {None, Some("It is sunny"), Some("5")}

\* what chat.completions.create may answer in round 1
Round1Messages ==
    {Message(c, tc) : c \in {None, Some("It is sunny")},
                      tc \in {None} \cup {Some(l) : l \in SeqsUpTo(ToolCalls, MaxToolCalls)}}

\* what it may answer in round 2 (nothing stops the model from sending
\* tool calls again)
Round2Messages ==
    {Message(c, tc) : c \in {None, Some("5")},
                      tc \in {None, Some(<<ToolCall("call_9", "add", PayloadAB)>>)}}

\* content items of a tool result
TextContent(text) == [type |-> "text", text |-> text]

ImageContent == [type |-> "image", data |-> "..."]

\* what session.call_tool may return
ToolResults ==
    { [content |-> <<TextContent("5")>>],
      [content |-> <<TextContent("sunny"), ImageContent>>],
      [content |-> <<ImageContent>>],
      [content |-> <<>>] }

\* What the collaborators may answer to caller t: everything above to main;
\* a second caller, running at the same time, asks about the weather and is
\* answered with one tool call.
QueriesOf(t) == IF t = "main" THEN Queries ELSE {"weather in Paris"}

ToolListingsOf(t) ==
    IF t = "main" THEN ToolListings
    ELSE {<<ServerTool("get_weather", "Get the weather for a given city", {"city"})>>}

Round1MessagesOf(t) ==
    IF t = "main" THEN Round1Messages
    ELSE {Message(None, Some(<<ToolCall("call_7", "get_weather", PayloadEmpty)>>))}

ToolResultsOf(t) ==
    IF t = "main" THEN ToolResults ELSE {[content |-> <<TextContent("rainy")>>]}

Round2MessagesOf(t) ==
    IF t = "main" THEN Round2Messages ELSE {Message(Some("It rains"), None)}

-----------------------------------------------------------------------------
\* MCPClient.get_mcp_tools and MCPClient.process_query

\* get_mcp_tools: the function-calling schema of each listed tool
get_mcp_tools(tools_result) ==
    [i \in 1..Len(tools_result) |->
        [type |-> "function",
         function |-> [name |-> tools_result[i].name,
                       description |-> tools_result[i].description,
                       parameters |-> tools_result[i].inputSchema]]]

UserMessage(query) == [role |-> "user", content |-> query]

\* a chat.completions.create call, as the endpoint sees it
Completion(messages, tools, tool_choice) ==
    [messages |-> messages, tools |-> tools, tool_choice |-> tool_choice]

\* the first call: messages=[{"role": "user", "content": query}], "auto"
first_request(query, tools) == Completion(<<UserMessage(query)>>, tools, "auto")

\* mutant: the second call lets the model choose again
final_request_auto(messages, tools) == Completion(messages, tools, "auto")

\* the second call: messages=messages, tool_choice="none"
final_request(messages, tools) == Completion(messages, tools, "none")

\* mutant: an empty tool_calls list counts as tool calls
has_tool_calls_not_none(message) == message.tool_calls # None

\* "if assistant_message.tool_calls:" (None and [] are false)
has_tool_calls(message) == message.tool_calls # None /\ message.tool_calls[1] # <<>>

\* result.content[0].text: IndexError on an empty content list,
\* AttributeError on a first item without text
result_text(result) ==
    IF result.content = <<>>
    THEN [ok |-> FALSE, value |-> "IndexError"]
    ELSE IF result.content[1].type # "text"
    THEN [ok |-> FALSE, value |-> "AttributeError"]
    ELSE [ok |-> TRUE, value |-> result.content[1].text]

\* mutant: every tool message is tagged with the first request's id
tool_message_first_id(tool_calls, i, text) ==
    [role |-> "tool", tool_call_id |-> tool_calls[1].id, content |-> text]

\* the message appended for the i-th tool call
tool_message(tool_calls, i, text) ==
    [role |-> "tool", tool_call_id |-> tool_calls[i].id, content |-> text]

Raised(name) == [kind |-> "raised", value |-> name]

ReturnedValue(v) == [kind |-> "returned", value |-> v]

\* mutant: the conversation is kept on the client, one list for all callers
Set_shared(t, r) ==
    task' = [u \in AllTasks |->
                IF u = t THEN r ELSE [task[u] EXCEPT !.messages = r.messages]]

Set(t, r) == task' = [task EXCEPT ![t] = r]

\* the interactive loop hands a query to process_query, which awaits
\* session.list_tools()
StartQuery(t) ==
    /\ exit_stack = "open"
    /\ task[t].pc = "idle"
    /\ \E query \in QueriesOf(t) :
           Set(t, [IdleTask EXCEPT !.pc = "list_tools", !.query = query])
    /\ active' = active \cup {t}
    /\ UNCHANGED <<nonQueryVars, exit_stack>>

\* list_tools returns: the schemas are built and the first completion call
\* is made
ListToolsReturn(t) ==
    /\ task[t].pc = "list_tools"
    /\ \E listed \in ToolListingsOf(t) :
           LET tools == get_mcp_tools(listed)
           IN  Set(t, [task[t] EXCEPT
                   !.tools = tools,
                   !.completions = Append(@, first_request(task[t].query, tools)),
                   !.pc = "round1"])
    /\ UNCHANGED <<nonQueryVars, active, exit_stack>>

\* the first completion answers
Round1Return(t) ==
    /\ task[t].pc = "round1"
    /\ \E m \in Round1MessagesOf(t) :
           IF has_tool_calls(m)
           THEN Set(t, [task[t] EXCEPT
                    !.assistant_message = m,
                    !.messages = <<UserMessage(task[t].query), m>>,
                    !.idx = 1,
                    !.pc = "loop"])
           ELSE Set(t, [task[t] EXCEPT
                    !.assistant_message = m,
                    !.messages = <<UserMessage(task[t].query), m>>,
                    !.outcome = ReturnedValue(m.content),
                    !.pc = "returned"])
    /\ UNCHANGED <<nonQueryVars, active, exit_stack>>

\* top of the for loop with a request left: json.loads, then call_tool
LoopCall(t) ==
    /\ task[t].pc = "loop"
    /\ task[t].idx <= Len(task[t].assistant_message.tool_calls[1])
    /\ LET tool_call == task[t].assistant_message.tool_calls[1][task[t].idx]
           arguments == json_loads(tool_call.function.arguments)
       IN  IF arguments.ok
           THEN Set(t, [task[t] EXCEPT
                    !.events = Append(@, [ev |-> "call", name |-> tool_call.function.name,
                                          arguments |-> arguments.value]),
                    !.pc = "call_tool"])
           ELSE Set(t, [task[t] EXCEPT
                    !.outcome = Raised(arguments.value),
                    !.pc = "raised"])
    /\ UNCHANGED <<nonQueryVars, active, exit_stack>>

\* call_tool returns: the result text is appended as a tool message
CallToolReturn(t) ==
    /\ task[t].pc = "call_tool"
    /\ \E result \in ToolResultsOf(t) :
           LET text == result_text(result)
               logged == Append(task[t].events, [ev |-> "return", result |-> result])
           IN  IF text.ok
               THEN Set(t, [task[t] EXCEPT
                        !.events = logged,
                        !.messages = Append(@, tool_message(
                            task[t].assistant_message.tool_calls[1], task[t].idx,
                            text.value)),
                        !.idx = @ + 1,
                        !.pc = "loop"])
               ELSE Set(t, [task[t] EXCEPT
                        !.events = logged,
                        !.outcome = Raised(text.value),
                        !.pc = "raised"])
    /\ UNCHANGED <<nonQueryVars, active, exit_stack>>

\* the for loop is exhausted: the second completion call is made
LoopExit(t) ==
    /\ task[t].pc = "loop"
    /\ task[t].idx > Len(task[t].assistant_message.tool_calls[1])
    /\ Set(t, [task[t] EXCEPT
           !.completions = Append(@, final_request(task[t].messages, task[t].tools)),
           !.pc = "round2"])
    /\ UNCHANGED <<nonQueryVars, active, exit_stack>>

\* mutant: tool calls of the second answer start the loop again
second_answer_loops(locals, m) ==
    IF has_tool_calls(m)
    THEN [locals EXCEPT
             !.assistant_message = m,
             !.messages = Append(@, m),
             !.idx = 1,
             !.pc = "loop"]
    ELSE [locals EXCEPT
             !.final_message = m,
             !.outcome = ReturnedValue(m.content),
             !.pc = "returned"]

\* return final_response.choices[0].message.content: the locals after it
second_answer(locals, m) ==
    [locals EXCEPT
        !.final_message = m,
        !.outcome = ReturnedValue(m.content),
        !.pc = "returned"]

\* the second completion answers: its content is returned
Round2Return(t) ==
    /\ task[t].pc = "round2"
    /\ \E m \in Round2MessagesOf(t) : Set(t, second_answer(task[t], m))
    /\ UNCHANGED <<nonQueryVars, active, exit_stack>>

\* an awaited collaborator call raises (list_tools, either completion call,
\* call_tool): nothing in process_query catches it
AwaitRaises(t) ==
    /\ task[t].pc \in {"list_tools", "round1", "call_tool", "round2"}
    /\ Set(t, [task[t] EXCEPT
           !.events = IF task[t].pc = "call_tool"
                      THEN Append(@, [ev |-> "raise"]) ELSE @,
           !.outcome = Raised(IF task[t].pc = "call_tool" THEN "McpError"
                              ELSE IF task[t].pc = "list_tools" THEN "McpError"
                              ELSE "APIError"),
           !.pc = "raised"])
    /\ UNCHANGED <<nonQueryVars, active, exit_stack>>

\* main prints the response and asks for the next query; the locals of the
\* finished call are gone
PrintResponse(t) ==
    /\ task[t].pc = "returned"
    /\ Set(t, IdleTask)
    /\ UNCHANGED <<nonQueryVars, active, exit_stack>>

\* main: an exception leaves the while loop; finally: await client.cleanup()
MainCleanup(t) ==
    /\ task[t].pc = "raised"
    /\ exit_stack = "open"
    /\ exit_stack' = "closed"
    /\ UNCHANGED <<nonQueryVars, active, task>>

\* main: KeyboardInterrupt at input(); finally: await client.cleanup()
MainInterrupt(t) ==
    /\ task[t].pc = "idle"
    /\ t \in active
    /\ exit_stack = "open"
    /\ exit_stack' = "closed"
    /\ UNCHANGED <<nonQueryVars, active, task>>

QueryInit ==
    /\ RegInitFixed
    /\ QueryIdle
    /\ UniIdle
    /\ ToolsIdle
    /\ UniMainIdle
    /\ ServerIdle
    /\ CopiesIdle
    /\ DecIdle

\* main runs one process_query at a time
QueryNext ==
    \/ StartQuery("main")
    \/ ListToolsReturn("main")
    \/ Round1Return("main")
    \/ LoopCall("main")
    \/ CallToolReturn("main")
    \/ LoopExit("main")
    \/ Round2Return("main")
    \/ AwaitRaises("main")
    \/ PrintResponse("main")
    \/ MainCleanup("main")
    \/ MainInterrupt("main")

SpecQuery == QueryInit /\ [][QueryNext]_vars

\* a second process_query call on the same client whose awaits interleave
\* with those of main's call
ConcurrentNext ==
    \/ QueryNext
    \/ StartQuery("other")
    \/ ListToolsReturn("other")
    \/ Round1Return("other")
    \/ LoopCall("other")
    \/ CallToolReturn("other")
    \/ LoopExit("other")
    \/ Round2Return("other")
    \/ AwaitRaises("other")
    \/ PrintResponse("other")

SpecConcurrent == QueryInit /\ [][ConcurrentNext]_vars

\* the event loop resumes process_query whenever the call it awaits has
\* returned, and runs it up to its next await
QueryFairness ==
    /\ WF_vars(ListToolsReturn("main"))
    /\ WF_vars(Round1Return("main"))
    /\ WF_vars(LoopCall("main"))
    /\ WF_vars(CallToolReturn("main"))
    /\ WF_vars(LoopExit("main"))
    /\ WF_vars(Round2Return("main"))

SpecQueryFair == QueryInit /\ [][QueryNext]_vars /\ QueryFairness

-----------------------------------------------------------------------------
\* UniversalMCPClient (client/universal_client.py)

\* what session.call_tool may do: return a result (content None, empty, or
\* items), raise an Exception with a message, or be interrupted
\* (KeyboardInterrupt, CancelledError: not subclasses of Exception)
SessionToolOutcomes ==
    {[kind |-> "result", content |-> c] :
         c \in { None, Some(<<>>),
                 Some(<<TextContent(PayloadAB)>>),
                 Some(<<TextContent(PayloadNumber), ImageContent>>),
                 Some(<<TextContent(PayloadCut)>>),
                 Some(<<ImageContent>>) }}
    \cup {[kind |-> "raised", message |-> msg] : msg \in {"Unknown tool: nosuchtool", "Timed out"}}
    \cup {[kind |-> "interrupt"]}

UniToolNames == {"calculate_fibonacci", "nosuchtool"}

\* the arguments parameter: None (the default), {} or a mapping
UniArguments == {None, Some(<<>>), Some([n |-> 10])}

\* mutant: an Exception of the session call leaves call_tool
universal_call_tool_reraise(outcome) ==
    IF outcome.kind = "interrupt"
    THEN Raised("CancelledError")
    ELSE IF outcome.kind = "raised"
    THEN Raised(outcome.message)
    ELSE IF outcome.content # None /\ Len(outcome.content[1]) > 0
    THEN LET content == outcome.content[1][1]
         IN  IF content.type = "text"
             THEN IF json_loads(content.text).ok
                  THEN ReturnedValue(json_loads(content.text).value)
                  ELSE ReturnedValue([result |-> content.text])
             ELSE ReturnedValue([result |-> <<"str(content)">>])
    ELSE ReturnedValue([status |-> "success"])

\* call_tool from its try block on: what the method returns or raises for
\* each outcome of session.call_tool
universal_call_tool(outcome) ==
    IF outcome.kind = "interrupt"
    THEN Raised("CancelledError")
    ELSE IF outcome.kind = "raised"
    THEN ReturnedValue([error |-> outcome.message])
    ELSE IF outcome.content # None /\ Len(outcome.content[1]) > 0
    THEN LET content == outcome.content[1][1]
         IN  IF content.type = "text"
             THEN IF json_loads(content.text).ok
                  THEN ReturnedValue(json_loads(content.text).value)
                  ELSE ReturnedValue([result |-> content.text])
             ELSE ReturnedValue([result |-> <<"str(content)">>])
    ELSE ReturnedValue([status |-> "success"])

NotConnected == Raised("RuntimeError: Not connected to server")

\* _cleanup: each context is exited if set and set to None unless its
\* __aexit__ raised (the assignment is then skipped, the error printed)
_cleanup(session, client_context, session_exit_raises, context_exit_raises) ==
    [session |-> IF session # None /\ session_exit_raises THEN session ELSE None,
     client_context |-> IF client_context # None /\ context_exit_raises
                        THEN client_context ELSE None]

\* connect(): the stages that can fail, in order; "connected" is success
ConnectStages == {"transport", "session", "initialize", "connected"}

ConnectStep ==
    \E stage \in ConnectStages, error \in {"Exception", "interrupt"},
       session_exit_raises, context_exit_raises \in BOOLEAN :
        LET context == Some("streamablehttp_client")
            session == IF stage = "transport" THEN u_session ELSE Some("ClientSession")
            cleaned == _cleanup(session, context, session_exit_raises, context_exit_raises)
        IN  /\ IF stage = "connected"
               THEN /\ u_session' = session
                    /\ u_client_context' = context
                    /\ u_last' = [op |-> "connect", outcome |-> ReturnedValue(None)]
               ELSE IF error = "Exception"
               THEN /\ u_session' = cleaned.session
                    /\ u_client_context' = cleaned.client_context
                    /\ u_last' = [op |-> "connect", outcome |-> Raised("Exception")]
               ELSE /\ u_session' = session
                    /\ u_client_context' = context
                    /\ u_last' = [op |-> "connect", outcome |-> Raised("CancelledError")]

Connect ==
    /\ ConnectStep
    /\ UNCHANGED nonUniVars

\* disconnect(): await self._cleanup()
DisconnectStep ==
    \E session_exit_raises, context_exit_raises \in BOOLEAN :
        LET cleaned == _cleanup(u_session, u_client_context,
                                session_exit_raises, context_exit_raises)
        IN  /\ u_session' = cleaned.session
            /\ u_client_context' = cleaned.client_context
            /\ u_last' = [op |-> "disconnect", outcome |-> ReturnedValue(None)]

Disconnect ==
    /\ DisconnectStep
    /\ UNCHANGED nonUniVars

\* call_tool(tool_name, arguments)
CallToolStep(tool_name, arguments) ==
    /\ IF u_session = None
       THEN u_last' = [op |-> "call_tool", tool_name |-> tool_name,
                       arguments |-> arguments, sent |-> <<>>,
                       session_outcome |-> [kind |-> "none"],
                       outcome |-> NotConnected]
       ELSE \E outcome \in SessionToolOutcomes :
                u_last' = [op |-> "call_tool", tool_name |-> tool_name,
                           arguments |-> arguments,
                           sent |-> <<[name |-> tool_name,
                                       arguments |-> IF arguments = None
                                                     THEN <<>> ELSE arguments[1]]>>,
                           session_outcome |-> outcome,
                           outcome |-> universal_call_tool(outcome)]
    /\ UNCHANGED <<u_session, u_client_context>>

CallTool ==
    /\ \E tool_name \in UniToolNames, arguments \in UniArguments :
           CallToolStep(tool_name, arguments)
    /\ UNCHANGED nonUniVars

ListedPairs == { <<>>, << <<"calculate_fibonacci", "Calculate fibonacci sequence">> >> }

\* list_tools() and list_resources(): the (name, description) pairs of the
\* session's answer, [] when the session call raises an Exception
ListOutcome(session_outcome) ==
    IF session_outcome.kind = "interrupt"
    THEN Raised("CancelledError")
    ELSE IF session_outcome.kind = "raised"
    THEN ReturnedValue(<<>>)
    ELSE ReturnedValue(session_outcome.value)

SessionListOutcomes ==
    {[kind |-> "result", value |-> l] : l \in ListedPairs}
    \cup {[kind |-> "raised", message |-> "Timed out"], [kind |-> "interrupt"]}

ListToolsStep ==
    /\ IF u_session = None
       THEN u_last' = [op |-> "list_tools", sent |-> <<>>, outcome |-> NotConnected]
       ELSE \E outcome \in SessionListOutcomes :
                u_last' = [op |-> "list_tools", sent |-> <<"list_tools">>,
                           outcome |-> ListOutcome(outcome)]
    /\ UNCHANGED <<u_session, u_client_context>>

ListTools ==
    /\ ListToolsStep
    /\ UNCHANGED nonUniVars

ListResourcesStep ==
    /\ IF u_session = None
       THEN u_last' = [op |-> "list_resources", sent |-> <<>>, outcome |-> NotConnected]
       ELSE \E outcome \in SessionListOutcomes :
                u_last' = [op |-> "list_resources", sent |-> <<"list_resources">>,
                           outcome |-> ListOutcome(outcome)]
    /\ UNCHANGED <<u_session, u_client_context>>

ListResources ==
    /\ ListResourcesStep
    /\ UNCHANGED nonUniVars

\* what session.read_resource may do: contents absent or empty, or a first
\* item with text, with a blob, or with neither
SessionReadOutcomes ==
    {[kind |-> "result", contents |-> c] :
         c \in { None, Some(<<>>),
                 Some(<<[text |-> Some(PayloadAB), blob |-> None]>>),
                 Some(<<[text |-> None, blob |-> Some(<<"A", "A", "=">>)]>>),
                 Some(<<[text |-> None, blob |-> None]>>) }}
    \cup {[kind |-> "raised", message |-> "Unknown resource"], [kind |-> "interrupt"]}

\* read_resource from its try block on: the text it returns
universal_read_resource(outcome) ==
    IF outcome.kind = "interrupt"
    THEN Raised("CancelledError")
    ELSE IF outcome.kind = "raised"
    THEN ReturnedValue(<<>>)
    ELSE IF outcome.contents # None /\ outcome.contents[1] # <<>>
    THEN LET content == outcome.contents[1][1]
         IN  IF content.text # None THEN ReturnedValue(content.text[1])
             ELSE IF content.blob # None THEN ReturnedValue(content.blob[1])
             ELSE ReturnedValue(<<"str(content)">>)
    ELSE ReturnedValue(<<"str(result)">>)

ReadResourceStep(resource_uri) ==
    /\ IF u_session = None
       THEN u_last' = [op |-> "read_resource", resource_uri |-> resource_uri,
                       sent |-> <<>>, outcome |-> NotConnected]
       ELSE \E outcome \in SessionReadOutcomes :
                u_last' = [op |-> "read_resource", resource_uri |-> resource_uri,
                           sent |-> <<resource_uri>>,
                           outcome |-> universal_read_resource(outcome)]
    /\ UNCHANGED <<u_session, u_client_context>>

ReadResource ==
    /\ \E resource_uri \in {"status://server", "config://streaming"} :
           ReadResourceStep(resource_uri)
    /\ UNCHANGED nonUniVars

UniInit ==
    /\ RegInitFixed
    /\ QueryIdle
    /\ UniIdle
    /\ ToolsIdle
    /\ UniMainIdle
    /\ ServerIdle
    /\ CopiesIdle
    /\ DecIdle

UniNext ==
    \/ Connect
    \/ Disconnect
    \/ CallTool
    \/ ListTools
    \/ ListResources
    \/ ReadResource

SpecUniversal == UniInit /\ [][UniNext]_vars

-----------------------------------------------------------------------------
\* main of the universal client

\* the options argparse hands to main; a str option is None when not given
\* and may be given as the empty string
MainArgs ==
    [list_tools : BOOLEAN,
     list_resources : BOOLEAN,
     tool : {None, Some(""), Some("calculate_fibonacci")},
     args : {None, Some(<<>>), Some(PayloadAB), Some(PayloadCut), Some(PayloadNumber)},
     resource : {None, Some("status://server")}]

\* the branch of main's if / elif chain that is taken
main_choice(args) ==
    IF args.list_tools THEN "list_tools"
    ELSE IF args.list_resources THEN "list_resources"
    ELSE IF TruthyName(args.tool)
    THEN IF TruthyText(args.args) /\ ~json_loads(args.args[1]).ok
         THEN "invalid_json"
         ELSE "call_tool"
    ELSE IF TruthyName(args.resource) THEN "read_resource"
    ELSE "usage"

\* tool_args = {}; if args.args: tool_args = json.loads(args.args)
tool_args(args) ==
    IF TruthyText(args.args) /\ json_loads(args.args[1]).ok
    THEN json_loads(args.args[1]).value
    ELSE <<>>

\* main called method op of the client, which has just ended
Performed(op) ==
    /\ um_trace' = Append(um_trace, op)
    /\ um_exc' = IF u_last'.outcome.kind = "raised"
                 THEN Some(u_last'.outcome.value) ELSE None

\* await client.connect()
MainConnect ==
    /\ um_pc = "connect"
    /\ ConnectStep
    /\ Performed("connect")
    /\ um_pc' = IF u_last'.outcome.kind = "raised" THEN "finally" ELSE "action"
    /\ UNCHANGED <<um_args, nonUniMainVars>>

MainListTools ==
    /\ um_pc = "action"
    /\ main_choice(um_args) = "list_tools"
    /\ ListToolsStep
    /\ Performed("list_tools")
    /\ um_pc' = "finally"
    /\ UNCHANGED <<um_args, nonUniMainVars>>

MainListResources ==
    /\ um_pc = "action"
    /\ main_choice(um_args) = "list_resources"
    /\ ListResourcesStep
    /\ Performed("list_resources")
    /\ um_pc' = "finally"
    /\ UNCHANGED <<um_args, nonUniMainVars>>

MainCallTool ==
    /\ um_pc = "action"
    /\ main_choice(um_args) = "call_tool"
    /\ CallToolStep(um_args.tool[1], Some(tool_args(um_args)))
    /\ Performed("call_tool")
    /\ um_pc' = "finally"
    /\ UNCHANGED <<um_args, nonUniMainVars>>

MainReadResource ==
    /\ um_pc = "action"
    /\ main_choice(um_args) = "read_resource"
    /\ ReadResourceStep(um_args.resource[1])
    /\ Performed("read_resource")
    /\ um_pc' = "finally"
    /\ UNCHANGED <<um_args, nonUniMainVars>>

\* print("Invalid JSON in --args"); return   /   the usage lines
MainNoAction ==
    /\ um_pc = "action"
    /\ main_choice(um_args) \in {"invalid_json", "usage"}
    /\ um_pc' = "finally"
    /\ UNCHANGED <<um_args, um_trace, um_exc, uniVars, nonUniMainVars>>

\* finally: await client.disconnect(). An Exception was printed and main
\* returns; an interrupt is a KeyboardInterrupt (printed, main returns) or a
\* CancelledError (main raises it after the finally block)
MainDisconnect ==
    /\ um_pc = "finally"
    /\ DisconnectStep
    /\ um_trace' = Append(um_trace, "disconnect")
    /\ um_pc' \in (IF um_exc = Some("CancelledError")
                   THEN {"returned", "raised"} ELSE {"returned"})
    /\ UNCHANGED <<um_args, um_exc, nonUniMainVars>>

UniMainInit ==
    /\ RegInitFixed
    /\ QueryIdle
    /\ UniIdle
    /\ ToolsIdle
    /\ DecIdle
    /\ CopiesIdle
    /\ ServerIdle
    /\ um_pc = "connect"
    /\ um_args \in MainArgs
    /\ um_trace = <<>>
    /\ um_exc = None

UniMainNext ==
    \/ MainConnect
    \/ MainListTools
    \/ MainListResources
    \/ MainCallTool
    \/ MainReadResource
    \/ MainNoAction
    \/ MainDisconnect

SpecUniMain == UniMainInit /\ [][UniMainNext]_vars

-----------------------------------------------------------------------------
\* The demo tool handlers

\* Python's int has no upper limit: a value is kept as two limbs,
\* hi * Limb + lo with 0 <= lo < Limb.
Limb == 1000 * 1000

PyInt(hi, lo) == [hi |-> hi, lo |-> lo]

Zero == PyInt(0, 0)

One == PyInt(0, 1)

Plus(x, y) ==
    PyInt(x.hi + y.hi + ((x.lo + y.lo) \div Limb), (x.lo + y.lo) % Limb)

Less(x, y) == x.hi < y.hi \/ (x.hi = y.hi /\ x.lo < y.lo)

\* x % 2 == 0
IsEven(x) == x.lo % 2 = 0

\* max(sequence) of a non-empty list
PyMax(l) == CHOOSE x \in {l[i] : i \in 1..Len(l)} : \A i \in 1..Len(l) : ~Less(x, l[i])

\* l[from] + ... + l[to], added up by halves
RECURSIVE SumRange(_, _, _)
SumRange(l, from, to) ==
    IF from > to
    THEN Zero
    ELSE IF from = to
    THEN l[from]
    ELSE LET mid == (from + to) \div 2
         IN  Plus(SumRange(l, from, mid), SumRange(l, mid + 1, to))

\* sum(l)
PySum(l) == SumRange(l, 1, Len(l))

\* the limits the handlers check their inputs against
MaxFib == 50

MaxSize == 1000

MaxLogLines == 5000

\* error_rate and processing_delay are floats: a value is kept as its
\* number of hundredths, so that 1.0 is
Hundredths == 100

Gcd(a, b) ==
    LET abs(x) == IF x < 0 THEN -x ELSE x
    IN  CHOOSE d \in 1..(abs(a) + abs(b)) :
            /\ a % d = 0
            /\ b % d = 0
            /\ \A e \in (d + 1)..(abs(a) + abs(b)) : ~(a % e = 0 /\ b % e = 0)

\* the float a / b for b # 0, as a fraction in lowest terms, den > 0
Quotient(a, b) ==
    LET g == IF a = 0 THEN (IF b < 0 THEN -b ELSE b) ELSE Gcd(a, b)
        sign == IF b < 0 THEN -1 ELSE 1
    IN  [num |-> sign * (a \div g), den |-> sign * (b \div g)]

Call(outcome, sleeps) == [outcome |-> outcome, sleeps |-> sleeps]

add(a, b) == Call(ReturnedValue(a + b), 0)

subtract(a, b) == Call(ReturnedValue(a - b), 0)

multiply(a, b) == Call(ReturnedValue(a * b), 0)

\* mutant: dividing by zero yields 0
divide_zero_is_zero(a, b) ==
    IF b = 0
    THEN Call(ReturnedValue(Quotient(0, 1)), 0)
    ELSE Call(ReturnedValue(Quotient(a, b)), 0)

divide(a, b) ==
    IF b = 0
    THEN Call(Raised("ValueError: Cannot divide by zero"), 0)
    ELSE Call(ReturnedValue(Quotient(a, b)), 0)

\* for i in range(n): sequence.append(a); a, b = b, a + b; await sleep
\* the locals are kept in one record
FibLocals(i, a, b, sequence) == [i |-> i, a |-> a, b |-> b, sequence |-> sequence]

RECURSIVE FibIterate(_, _)
FibIterate(locals, n) ==
    IF locals.i = n
    THEN locals.sequence
    ELSE FibIterate(FibLocals(locals.i + 1, locals.b, Plus(locals.a, locals.b),
                              Append(locals.sequence, locals.a)), n)

FibLoop(i, n, a, b, sequence) == FibIterate(FibLocals(i, a, b, sequence), n)

\* mutant: the lower bound check lets 0 through
calculate_fibonacci_off_by_one(n) ==
    IF n < 0
    THEN Call(ReturnedValue([error |-> "n must be positive"]), 0)
    ELSE IF n > MaxFib
    THEN Call(ReturnedValue([error |-> "n too large (max 50)"]), 0)
    ELSE LET sequence == FibLoop(0, n, Zero, One, <<>>)
         IN  IF Len(sequence) > 1 /\ sequence[Len(sequence) - 1] = Zero
             THEN Call(Raised("ZeroDivisionError"), n)
             ELSE Call(ReturnedValue(
                      [sequence |-> sequence,
                       count |-> Len(sequence),
                       last_number |-> IF sequence # <<>> THEN sequence[Len(sequence)] ELSE Zero,
                       largest_number |-> IF sequence # <<>> THEN PyMax(sequence) ELSE Zero]), n)

\* calculate_fibonacci(n). The golden ratio approximation divides the last
\* number by the one before it, which is 0 for n = 2. The timestamp and the
\* rounded ratio are left out of the result.
calculate_fibonacci(n) ==
    IF n <= 0
    THEN Call(ReturnedValue([error |-> "n must be positive"]), 0)
    ELSE IF n > MaxFib
    THEN Call(ReturnedValue([error |-> "n too large (max 50)"]), 0)
    ELSE LET sequence == FibLoop(0, n, Zero, One, <<>>)
         IN  IF Len(sequence) > 1 /\ sequence[Len(sequence) - 1] = Zero
             THEN Call(Raised("ZeroDivisionError"), n)
             ELSE Call(ReturnedValue(
                      [sequence |-> sequence,
                       count |-> Len(sequence),
                       last_number |-> IF sequence # <<>> THEN sequence[Len(sequence)] ELSE Zero,
                       largest_number |-> IF sequence # <<>> THEN PyMax(sequence) ELSE Zero]), n)

\* fibonacci_stats(max_number); the timestamp, the average and the rounded
\* ratio are left out of the result
fibonacci_stats(max_number) ==
    IF max_number <= 0
    THEN Call(ReturnedValue([error |-> "max_number must be positive"]), 0)
    ELSE IF max_number > MaxFib
    THEN Call(ReturnedValue([error |-> "max_number too large (max 50)"]), 0)
    ELSE LET fib_numbers == FibLoop(0, max_number, Zero, One, <<>>)
             even_count == Cardinality({i \in 1..Len(fib_numbers) : IsEven(fib_numbers[i])})
         IN  IF Len(fib_numbers) > 1 /\ fib_numbers[Len(fib_numbers) - 1] = Zero
             THEN Call(Raised("ZeroDivisionError"), max_number)
             ELSE Call(ReturnedValue(
                      [sequence_length |-> Len(fib_numbers),
                       complete_sequence |-> fib_numbers,
                       sum |-> PySum(fib_numbers),
                       even_count |-> even_count,
                       odd_count |-> Len(fib_numbers) - even_count,
                       largest_number |-> PyMax(fib_numbers)]), max_number)

\* process_large_dataset(size, processing_delay): one sleep per item; the
\* random values and what is computed from them are left out of the result
process_large_dataset(size, processing_delay) ==
    IF size <= 0
    THEN Call(ReturnedValue([error |-> "Size must be positive"]), 0)
    ELSE IF size > MaxSize
    THEN Call(ReturnedValue([error |-> "Size too large (max 1000)"]), 0)
    ELSE IF processing_delay < 0
    THEN Call(ReturnedValue([error |-> "Processing delay must be non-negative"]), 0)
    ELSE Call(ReturnedValue(
             [total_processed |-> size,
              sample_size |-> IF size < 5 THEN size ELSE 5,
              batch_size |-> size,
              processing_time_per_item |-> processing_delay]), size)

\* analyze_logs(log_lines, error_rate): one sleep per line; the random log
\* levels and what is computed from them are left out of the result
analyze_logs(log_lines, error_rate) ==
    IF log_lines <= 0
    THEN Call(ReturnedValue([error |-> "log_lines must be positive"]), 0)
    ELSE IF log_lines > MaxLogLines
    THEN Call(ReturnedValue([error |-> "log_lines too large (max 5000)"]), 0)
    ELSE IF ~(0 <= error_rate /\ error_rate <= Hundredths)
    THEN Call(ReturnedValue([error |-> "error_rate must be between 0 and 1"]), 0)
    ELSE Call(ReturnedValue(
             [total_lines_analyzed |-> log_lines,
              target_error_rate |-> error_rate]), log_lines)

\* the arguments the handlers are called with
Numbers == -3..9

FibInputs == -1..(MaxFib + 1)

SizeInputs == {-1, 0, 1, 4, 5, 6, MaxSize, MaxSize + 1}

DelayInputs == {-1, 0, 1}

LogLineInputs == {-1, 0, 1, 500, MaxLogLines, MaxLogLines + 1}

ErrorRateInputs == {-1, 0, 10, Hundredths, Hundredths + 1}

Called(tool, args, result) ==
    h_call' = [op |-> "call", tool |-> tool, args |-> args,
               outcome |-> result.outcome, sleeps |-> result.sleeps]

CallAdd ==
    /\ \E a, b \in Numbers : Called("add", <<a, b>>, add(a, b))
    /\ UNCHANGED nonToolVars

CallSubtract ==
    /\ \E a, b \in Numbers : Called("subtract", <<a, b>>, subtract(a, b))
    /\ UNCHANGED nonToolVars

CallMultiply ==
    /\ \E a, b \in Numbers : Called("multiply", <<a, b>>, multiply(a, b))
    /\ UNCHANGED nonToolVars

CallDivide ==
    /\ \E a, b \in Numbers : Called("divide", <<a, b>>, divide(a, b))
    /\ UNCHANGED nonToolVars

CallCalculateFibonacci ==
    /\ \E n \in FibInputs : Called("calculate_fibonacci", <<n>>, calculate_fibonacci(n))
    /\ UNCHANGED nonToolVars

CallFibonacciStats ==
    /\ \E n \in FibInputs : Called("fibonacci_stats", <<n>>, fibonacci_stats(n))
    /\ UNCHANGED nonToolVars

CallProcessLargeDataset ==
    /\ \E size \in SizeInputs, processing_delay \in DelayInputs :
           Called("process_large_dataset", <<size, processing_delay>>,
                  process_large_dataset(size, processing_delay))
    /\ UNCHANGED nonToolVars

CallAnalyzeLogs ==
    /\ \E log_lines \in LogLineInputs, error_rate \in ErrorRateInputs :
           Called("analyze_logs", <<log_lines, error_rate>>,
                  analyze_logs(log_lines, error_rate))
    /\ UNCHANGED nonToolVars

ToolsInit ==
    /\ RegInitFixed
    /\ QueryIdle
    /\ UniIdle
    /\ ToolsIdle
    /\ UniMainIdle
    /\ ServerIdle
    /\ CopiesIdle
    /\ DecIdle

ToolsNext ==
    \/ CallAdd
    \/ CallSubtract
    \/ CallMultiply
    \/ CallDivide
    \/ CallCalculateFibonacci
    \/ CallFibonacciStats
    \/ CallProcessLargeDataset
    \/ CallAnalyzeLogs

SpecTools == ToolsInit /\ [][ToolsNext]_vars

-----------------------------------------------------------------------------
\* mcp_tool applied to handlers one at a time

MaxRegistrations == 2

\* handlers with a docstring, with a docstring in whitespace, with none
DecHandlers == {Handler("calculation", st) : st \in {StmtAdd, StmtWeather, StmtPlus}}

\* name=: not given, the empty string, a name
DecNames == {None, Some(""), Some("custom_name")}

\* description=: not given, the empty string, a text with a leading blank
DecDescriptions == {None, Some(<<>>), Some(<<" ", "G">>)}

\* stream_enabled= is a parameter of the streaming package's mcp_tool only
DecFlags(var) == IF var = "streaming" THEN BOOLEAN ELSE {TRUE}

Applied(form, f, name, description, stream_enabled, returns) ==
    m_call' = [op |-> "mcp_tool", form |-> form, func |-> f, name |-> name,
               description |-> description, stream_enabled |-> stream_enabled,
               before |-> _mcp_tools, returns |-> returns]

\* what an application of mcp_tool leaves alone
decFrame ==
    <<variant, tools_dir, sys_modules, d_pc, listing, cur_module, cur_stmt,
      attempted, failed, ran, passes, last_returned, queryVars, uniVars, toolVars,
      copyVars, serverVars, mainVars>>

\* @mcp_tool  def f: mcp_tool(f)
ApplyBare ==
    /\ Len(_mcp_tools) < MaxRegistrations
    /\ \E f \in DecHandlers :
           LET call == mcp_tool(_mcp_tools, Some(f), None, None, TRUE, variant)
           IN  /\ _mcp_tools' = call.registry
               /\ Applied("bare", Some(f), None, None, TRUE, call.returns)
    /\ UNCHANGED decFrame

\* @mcp_tool(name=.., description=.., stream_enabled=..)  def f:
\* mcp_tool(...) returns decorator, which is then called with f
ApplyFactory ==
    /\ Len(_mcp_tools) < MaxRegistrations
    /\ \E f \in DecHandlers, name \in DecNames, description \in DecDescriptions,
          stream_enabled \in DecFlags(variant) :
           LET made == mcp_tool(_mcp_tools, None, name, description, stream_enabled, variant)
           IN  /\ made.returns = "decorator"
               /\ _mcp_tools' = decorator(made.registry, f, name, description,
                                          stream_enabled, variant)
               /\ Applied("factory", Some(f), name, description, stream_enabled,
                          decorator_returns(f))
    /\ UNCHANGED decFrame

\* mcp_tool(name=.., ...) whose result is never called with a handler
MakeFactory ==
    /\ \E name \in DecNames, description \in DecDescriptions,
          stream_enabled \in DecFlags(variant) :
           LET made == mcp_tool(_mcp_tools, None, name, description, stream_enabled, variant)
           IN  /\ _mcp_tools' = made.registry
               /\ Applied("factory_only", None, name, description, stream_enabled,
                          made.returns)
    /\ UNCHANGED decFrame

DecInit ==
    /\ variant \in {"server", "streaming"}
    /\ tools_dir = [m \in ToolModules |-> <<>>]
    /\ sys_modules = {}
    /\ _mcp_tools = <<>>
    /\ d_pc = "idle"
    /\ listing = <<>>
    /\ cur_module = None
    /\ cur_stmt = 0
    /\ attempted = {}
    /\ failed = {}
    /\ ran = <<>>
    /\ passes = 0
    /\ last_returned = [by |-> "nobody", value |-> <<>>]
    /\ QueryIdle
    /\ UniIdle
    /\ ToolsIdle
    /\ UniMainIdle
    /\ ServerIdle
    /\ CopiesIdle
    /\ DecIdle

DecNext ==
    \/ ApplyBare
    \/ ApplyFactory
    \/ MakeFactory

SpecDecorator == DecInit /\ [][DecNext]_vars

-----------------------------------------------------------------------------
\* Callers that keep and change the lists they were returned

MaxHeld == 2

MaxItems == 3

\* a tools folder whose second module fails after registering, so that a
\* second pass executes it again
CopiesDirs ==
    { [m \in ToolModules |->
          IF m = "calculation" THEN <<StmtAdd, StmtPlus>> ELSE <<StmtWeather, RaiseStmt>>] }

\* a held list: its own object when the call made a new list, the registry
\* object otherwise
Kept(returned) == [alias |-> ~returned.fresh, items |-> returned.value]

\* what a held list contains now
Content(h) == IF h.alias THEN _mcp_tools ELSE h.items

\* something a caller may put into a list
ExtraItem == [name |-> "extra"]

Reverse(l) == [i \in 1..Len(l) |-> l[Len(l) + 1 - i]]

KeepDiscoverReturn ==
    /\ DiscoverReturnStep
    /\ Len(held) < MaxHeld
    /\ held' = Append(held, Kept(last_returned'))
    /\ UNCHANGED nonRegCopyVars

KeepGetDiscoveredTools ==
    /\ GetDiscoveredToolsStep
    /\ Len(held) < MaxHeld
    /\ held' = Append(held, Kept(last_returned'))
    /\ UNCHANGED nonRegCopyVars

\* the caller replaces the content of its i-th list in place
Mutate(i, new) ==
    /\ IF held[i].alias
       THEN /\ _mcp_tools' = new
            /\ held' = held
       ELSE /\ held' = [held EXCEPT ![i].items = new]
            /\ _mcp_tools' = _mcp_tools
    /\ UNCHANGED <<variant, tools_dir, sys_modules, d_pc, listing, cur_module, cur_stmt,
                   attempted, failed, ran, passes, last_returned, nonRegCopyVars>>

\* held[i].append(item)
CallerAppend ==
    /\ d_pc = "idle"
    /\ \E i \in 1..Len(held) :
           /\ Len(Content(held[i])) < MaxItems
           /\ Mutate(i, Append(Content(held[i]), ExtraItem))

\* held[i].pop()
CallerPop ==
    /\ d_pc = "idle"
    /\ \E i \in 1..Len(held) :
           /\ Content(held[i]) # <<>>
           /\ Mutate(i, SubSeq(Content(held[i]), 1, Len(Content(held[i])) - 1))

\* held[i].reverse()
CallerReverse ==
    /\ d_pc = "idle"
    /\ \E i \in 1..Len(held) :
           /\ Reverse(Content(held[i])) # Content(held[i])
           /\ Mutate(i, Reverse(Content(held[i])))

CopiesInit ==
    /\ variant \in {"server", "streaming"}
    /\ tools_dir \in CopiesDirs
    /\ sys_modules = {}
    /\ _mcp_tools = <<>>
    /\ d_pc = "idle"
    /\ listing = <<>>
    /\ cur_module = None
    /\ cur_stmt = 0
    /\ attempted = {}
    /\ failed = {}
    /\ ran = <<>>
    /\ passes = 0
    /\ last_returned = [by |-> "nobody", value |-> <<>>]
    /\ QueryIdle
    /\ UniIdle
    /\ ToolsIdle
    /\ UniMainIdle
    /\ ServerIdle
    /\ DecIdle
    /\ CopiesIdle

CopiesNext ==
    \/ RegNext
    \/ KeepDiscoverReturn
    \/ KeepGetDiscoveredTools
    \/ CallerAppend
    \/ CallerPop
    \/ CallerReverse

SpecCopies == CopiesInit /\ [][CopiesNext]_vars

-----------------------------------------------------------------------------
\* run_server and run_streaming_server

\* the tools folders a server is started on: the two modules as they are, a
\* folder with a name collision and a failing module, an empty folder
ServerDirs ==
    CopiesDirs
    \cup { [m \in ToolModules |-> IF m = "calculation" THEN <<StmtAdd>> ELSE <<StmtWeather>>],
           [m \in ToolModules |-> <<>>] }

\* the arguments of mcp.add_tool(fn=, name=, description=)
add_tool(tool_info) ==
    [fn |-> tool_info.function, name |-> tool_info.name,
     description |-> tool_info.description]

\* mutant: the status resource reports no tools
get_server_status_none(discovered_tools) ==
    [server_type |-> "stateless_streaming", status |-> "healthy", tools_count |-> 0]

\* get_server_status(): timestamp, transport, host and port are left out
get_server_status(discovered_tools) ==
    [server_type |-> "stateless_streaming", status |-> "healthy",
     tools_count |-> Len(discovered_tools)]

\* the resources run_streaming_server registers; run_server registers none
ServerResources(var) ==
    IF var = "streaming" THEN {"status://server", "config://streaming"} ELSE {}

serverFrame == <<variant, tools_dir, sys_modules, _mcp_tools, d_pc, listing, cur_module,
                 cur_stmt, attempted, failed, ran, passes, last_returned>>

\* discovered_tools = discover_tools(): the steps of the pass
ServerDiscover ==
    /\ s_pc = "start"
    /\ \/ DiscoverStart
       \/ LoopSkip
       \/ ImportCached
       \/ ImportBegin
       \/ ExecTool
       \/ ExecRaise
       \/ ExecDone

\* discover_tools() returns; mcp = FastMCP(...); the resources are registered
ServerCreate ==
    /\ s_pc = "start"
    /\ DiscoverReturnStep
    /\ s_discovered' = last_returned'.value
    /\ s_resources' = ServerResources(variant)
    /\ s_pc' = "adding"
    /\ UNCHANGED <<s_added, s_last, nonRegServerVars>>

\* one iteration of for tool_info in discovered_tools: mcp.add_tool(...)
ServerAddTool ==
    /\ s_pc = "adding"
    /\ Len(s_added) < Len(s_discovered)
    /\ s_added' = Append(s_added, add_tool(s_discovered[Len(s_added) + 1]))
    /\ UNCHANGED <<s_pc, s_discovered, s_resources, s_last, serverFrame, nonRegServerVars>>

\* mcp.add_tool raises: run_server ends with the exception
ServerAddToolRaises ==
    /\ s_pc = "adding"
    /\ Len(s_added) < Len(s_discovered)
    /\ s_pc' = "crashed"
    /\ UNCHANGED <<s_added, s_discovered, s_resources, s_last, serverFrame, nonRegServerVars>>

\* the loop is over: mcp.run(transport=args.transport)
ServerRun ==
    /\ s_pc = "adding"
    /\ Len(s_added) = Len(s_discovered)
    /\ s_pc' = "serving"
    /\ UNCHANGED <<s_added, s_discovered, s_resources, s_last, serverFrame, nonRegServerVars>>

\* a client reads status://server
ServeStatus ==
    /\ s_pc = "serving"
    /\ "status://server" \in s_resources
    /\ s_last' = [op |-> "status", result |-> get_server_status(s_discovered)]
    /\ UNCHANGED <<s_pc, s_added, s_discovered, s_resources, serverFrame, nonRegServerVars>>

\* a client calls one of the tools that were added
ServeToolCall ==
    /\ s_pc = "serving"
    /\ \E i \in 1..Len(s_added) :
           s_last' = [op |-> "call_tool", name |-> s_added[i].name, fn |-> s_added[i].fn]
    /\ UNCHANGED <<s_pc, s_added, s_discovered, s_resources, serverFrame, nonRegServerVars>>

ServerInit ==
    /\ variant \in {"server", "streaming"}
    /\ tools_dir \in ServerDirs
    /\ sys_modules = {}
    /\ _mcp_tools = <<>>
    /\ d_pc = "idle"
    /\ listing = <<>>
    /\ cur_module = None
    /\ cur_stmt = 0
    /\ attempted = {}
    /\ failed = {}
    /\ ran = <<>>
    /\ passes = 0
    /\ last_returned = [by |-> "nobody", value |-> <<>>]
    /\ QueryIdle
    /\ UniIdle
    /\ ToolsIdle
    /\ UniMainIdle
    /\ DecIdle
    /\ CopiesIdle
    /\ ServerIdle

ServerNext ==
    \/ ServerDiscover
    \/ ServerCreate
    \/ ServerAddTool
    \/ ServerAddToolRaises
    \/ ServerRun
    \/ ServeStatus
    \/ ServeToolCall

SpecServer == ServerInit /\ [][ServerNext]_vars

-----------------------------------------------------------------------------
\* What a pass is expected to register, read off the module bodies

\* the statements of a body that run before its first raise
RECURSIVE Executed(_)
Executed(body) ==
    IF body = <<>> \/ Head(body).kind = "raise"
    THEN <<>>
    ELSE <<Head(body)>> \o Executed(Tail(body))

\* the name a call site registers under
SiteName(stmt) == IF stmt.kind = "factory" /\ stmt.name # None /\ stmt.name[1] # ""
                  THEN stmt.name[1]
                  ELSE stmt.func.__name__

\* the call sites of module m that have run so far in the current pass
SitesRun(m) ==
    IF cur_module = Some(m)
    THEN SubSeq(tools_dir[m], 1, cur_stmt - 1)
    ELSE Executed(tools_dir[m])

\* (module, call site) pairs registered so far in the current pass, in order
RECURSIVE SitesOf(_)
SitesOf(mods) ==
    IF mods = <<>>
    THEN <<>>
    ELSE [i \in 1..Len(SitesRun(Head(mods))) |->
              [module |-> Head(mods), stmt |-> SitesRun(Head(mods))[i]]]
         \o SitesOf(Tail(mods))

AllSites ==
    UNION {{[module |-> m, index |-> i] : i \in 1..Len(Executed(tools_dir[m]))}
           : m \in ToolModules}

ValidCallSites == Cardinality(AllSites)

NoNameCollisions ==
    \A a, b \in AllSites :
        SiteName(tools_dir[a.module][a.index]) = SiteName(tools_dir[b.module][b.index])
            => a = b

\* the descriptors of list l that module m registered
ModuleDescs(l, m) == SelectSeq(l, LAMBDA d : d.module = m)

Functions(l) == [i \in 1..Len(l) |-> l[i].function]

Names(l) == [i \in 1..Len(l) |-> l[i].name]

HandlersOf(m, stmts) == [i \in 1..Len(stmts) |-> Handler(m, stmts[i])]

\* discover_tools() has just returned to its caller
PassReturned == d_pc = "idle" /\ last_returned.by = "discover_tools"

\* a list is in the caller's hands and the registry has not been cleared since
Returned == d_pc = "idle" /\ last_returned.by # "nobody"

-----------------------------------------------------------------------------
\* Claims about the registry

\* C1: with no name collisions, every discover_tools() call of a process (the
\* second as the first) returns a list whose size is the number of valid
\* registration call sites of the tool modules.
C1_EveryPassReturnsAllSites ==
    (PassReturned /\ NoNameCollisions) => Len(last_returned.value) = ValidCallSites

\* C2: in a pass where some module's import raises, every other module is
\* still handed to import_module and every tool of every module whose import
\* succeeded is in the returned list.
C2_FailureIsolated ==
    (PassReturned /\ failed # {}) =>
        /\ attempted = ToolModules
        /\ \A m \in ToolModules \ failed :
               Functions(ModuleDescs(last_returned.value, m))
                   = HandlersOf(m, Executed(tools_dir[m]))

\* C3: a module that registered k tools and then raised keeps exactly those k
\* descriptors, in registration order, in the registry and in the list the
\* pass returns.
C3_NoRollback ==
    \A m \in failed :
        /\ Functions(ModuleDescs(_mcp_tools, m)) = HandlersOf(m, Executed(tools_dir[m]))
        /\ PassReturned =>
               Functions(ModuleDescs(last_returned.value, m))
                   = HandlersOf(m, Executed(tools_dir[m]))

C3_Witness ==
    /\ PassReturned
    /\ \E m \in failed :
           /\ Len(Executed(tools_dir[m])) >= 2
           /\ Len(ModuleDescs(last_returned.value, m)) < Len(last_returned.value)
           /\ Len(Executed(tools_dir[m])) + 1 < Len(tools_dir[m])

\* C4 as stated: the names of every returned list are pairwise distinct.
C4_NamesDistinct ==
    Returned => Injective(Names(last_returned.value))

\* C4 as amended: a returned list holds one descriptor per registration run
\* since the registry was cleared, in registration order and under the name
\* of its call site; a name registered twice appears twice.
C4_EveryRegistrationKept ==
    Returned =>
        LET sites == SitesOf(ran)
        IN  /\ Len(last_returned.value) = Len(sites)
            /\ \A i \in 1..Len(sites) :
                   /\ last_returned.value[i].function
                          = Handler(sites[i].module, sites[i].stmt)
                   /\ last_returned.value[i].name = SiteName(sites[i].stmt)

C4_Witness ==
    /\ Returned
    /\ \E i, j \in 1..Len(last_returned.value) :
           /\ i < j
           /\ last_returned.value[i].name = last_returned.value[j].name
           /\ last_returned.value[i].function # last_returned.value[j].function

-----------------------------------------------------------------------------
\* Claims about the orchestrator

\* the tool-call requests of a response, in the order received
Requested(message) == IF message.tool_calls = None THEN <<>> ELSE message.tool_calls[1]

\* the first completion call of caller t has been answered
Answered(t) == Len(task[t].messages) >= 2

\* the mapping each well-formed payload stands for
Decoded(p) ==
    IF p = PayloadAB THEN [a |-> 2, b |-> 3]
    ELSE IF p = PayloadAA THEN [a |-> 3]
    ELSE IF p = PayloadNumber THEN 2
    ELSE <<>>

\* tool-role messages appended so far
ToolMessages(t) == SubSeq(task[t].messages, 3, Len(task[t].messages))

\* call_tool invocations started so far
CallCount(t) == Cardinality({j \in 1..Len(task[t].events) : task[t].events[j].ev = "call"})

\* C5: a first-round response without tool-call requests (absent or empty)
\* is answered with its content, after exactly one completion call ("auto",
\* the single user message) and no call_tool invocation.
C5_DirectAnswer ==
    \A t \in AllTasks :
        (Answered(t) /\ Requested(task[t].assistant_message) = <<>>) =>
            /\ task[t].pc = "returned"
            /\ task[t].outcome = ReturnedValue(task[t].assistant_message.content)
            /\ Len(task[t].completions) = 1
            /\ task[t].completions[1].tool_choice = "auto"
            /\ task[t].completions[1].messages = <<UserMessage(task[t].query)>>
            /\ task[t].events = <<>>

C5_Witness ==
    \E t \in AllTasks :
        /\ task[t].pc = "returned"
        /\ task[t].assistant_message.tool_calls = Some(<<>>)
        /\ task[t].outcome.value = Some("It is sunny")

\* C6: call_tool is invoked once per request, one after the other in the
\* order received (an invocation starts only when the one before it has
\* returned), with the requested name and the decoded arguments; the i-th
\* tool message carries the i-th request's id and the text of the i-th
\* result; when the loop is left every request has been invoked.
C6_SequentialInRequestOrder ==
    \A t \in AllTasks :
        LET reqs == Requested(task[t].assistant_message)
            ev == task[t].events
            msgs == ToolMessages(t)
        IN  (Answered(t) /\ reqs # <<>>) =>
                /\ \A j \in 1..Len(ev) :
                       IF j % 2 = 1
                       THEN /\ ev[j].ev = "call"
                            /\ (j + 1) \div 2 <= Len(reqs)
                            /\ ev[j].name = reqs[(j + 1) \div 2].function.name
                            /\ ev[j].arguments
                                   = Decoded(reqs[(j + 1) \div 2].function.arguments)
                       ELSE /\ ev[j].ev \in {"return", "raise"}
                            /\ ev[j].ev = "raise" => j = Len(ev)
                /\ Len(msgs) <= Len(reqs)
                /\ 2 * Len(msgs) <= Len(ev)
                /\ \A i \in 1..Len(msgs) :
                       /\ ev[2 * i].ev = "return"
                       /\ msgs[i].role = "tool"
                       /\ msgs[i].tool_call_id = reqs[i].id
                       /\ msgs[i].content = ev[2 * i].result.content[1].text
                /\ task[t].pc \in {"round2", "returned"} =>
                       /\ Len(ev) = 2 * Len(reqs)
                       /\ Len(msgs) = Len(reqs)

C6_Witness ==
    \E t \in AllTasks :
        LET reqs == Requested(task[t].assistant_message)
        IN  /\ task[t].pc = "round2"
            /\ Len(reqs) = 2
            /\ reqs[1].id # reqs[2].id
            /\ reqs[1].function.name # reqs[2].function.name
            /\ ToolMessages(t)[1].content # ToolMessages(t)[2].content

\* C7: with n >= 1 requests all invoked successfully, the second completion
\* call comes after the n invocations have returned, with tool_choice "none"
\* and the 2 + n messages user, assistant, tool results in order; the
\* content of its response is what process_query returns.
C7_SecondRound ==
    \A t \in AllTasks :
        LET reqs == Requested(task[t].assistant_message)
            n == Len(reqs)
            ev == task[t].events
        IN  (Answered(t) /\ n >= 1) =>
                /\ Len(task[t].completions) <= 2
                /\ (Len(ToolMessages(t)) = n /\ task[t].pc # "loop")
                       => Len(task[t].completions) = 2
                /\ Len(task[t].completions) = 2 =>
                       LET sent == task[t].completions[2]
                       IN  /\ sent.tool_choice = "none"
                           /\ Len(sent.messages) = 2 + n
                           /\ sent.messages[1] = UserMessage(task[t].query)
                           /\ sent.messages[2] = task[t].assistant_message
                           /\ \A i \in 1..n :
                                  sent.messages[2 + i] =
                                      [role |-> "tool", tool_call_id |-> reqs[i].id,
                                       content |-> ev[2 * i].result.content[1].text]
                           /\ Len(ev) = 2 * n
                           /\ \A i \in 1..n : ev[2 * i].ev = "return"
                /\ task[t].pc = "returned" =>
                       /\ Len(task[t].completions) = 2
                       /\ task[t].outcome = ReturnedValue(task[t].final_message.content)

C7_Witness ==
    \E t \in AllTasks :
        /\ task[t].pc = "returned"
        /\ Len(Requested(task[t].assistant_message)) = 2
        /\ Len(task[t].completions) = 2
        /\ task[t].outcome.value = Some("5")
        /\ task[t].final_message.tool_calls # None

\* the k-th request of caller t is the one that failed
FailedAt(t, k) ==
    /\ Answered(t)
    /\ task[t].pc = "raised"
    /\ Len(task[t].completions) = 1
    /\ task[t].idx = k

\* C8: when the k-th request fails (payload not decodable, call_tool
\* raises, or the result has no text) the failure leaves process_query:
\* no answer, no second completion call, no invocation of requests k+1..n,
\* and the invocations of requests 1..k-1 stand as they were made.
C8_FailurePropagates ==
    \A t \in AllTasks :
        LET reqs == Requested(task[t].assistant_message)
            ev == task[t].events
            k == task[t].idx
        IN  (Answered(t) /\ reqs # <<>>) =>
                \* a request that cannot be decoded is never stepped over
                /\ (k <= Len(reqs) /\ reqs[k].function.arguments \in BadPayloads
                        /\ task[t].pc # "loop")
                       => (task[t].pc = "raised" /\ Len(ev) = 2 * (k - 1))
                \* neither is a failed invocation
                /\ \A j \in 1..(k - 1) :
                       /\ reqs[j].function.arguments \in GoodPayloads
                       /\ ev[2 * j].ev = "return"
                       /\ ev[2 * j].result.content # <<>>
                       /\ ev[2 * j].result.content[1].type = "text"
                /\ (Len(ev) > 0 /\ ev[Len(ev)].ev = "raise") => task[t].pc = "raised"
                /\ (Len(ev) >= 2 * k /\ k <= Len(reqs) /\ ev[2 * k].ev = "return"
                        /\ (ev[2 * k].result.content = <<>>
                            \/ ev[2 * k].result.content[1].type # "text"))
                       => task[t].pc = "raised"
                /\ FailedAt(t, k) =>
                       /\ task[t].outcome.kind = "raised"
                       /\ CallCount(t) \in {k - 1, k}
                       /\ Len(ToolMessages(t)) = k - 1
                       /\ \A j \in 1..(k - 1) :
                              /\ ev[2 * j - 1].ev = "call"
                              /\ ev[2 * j - 1].name = reqs[j].function.name

C8_Witness ==
    \E t \in AllTasks :
        /\ FailedAt(t, 2)
        /\ Len(Requested(task[t].assistant_message)) = 2
        /\ Requested(task[t].assistant_message)[2].function.arguments \in BadPayloads
        /\ Len(task[t].events) = 2
        /\ exit_stack = "closed"

-----------------------------------------------------------------------------
\* Claims about the universal client

\* C9: an Exception raised by the session's call_tool is caught: call_tool
\* returns the mapping {error: message} and self.session and
\* self.client_context are what they were.
C9_ErrorsBecomeResults ==
    [][u_last'.op = "call_tool" =>
          /\ u_session' = u_session
          /\ u_client_context' = u_client_context
          /\ u_last'.session_outcome.kind = "raised" =>
                 /\ u_last'.outcome.kind = "returned"
                 /\ DOMAIN u_last'.outcome.value = {"error"}
                 /\ u_last'.outcome.value.error = u_last'.session_outcome.message]_vars

C9_Witness ==
    /\ u_last.op = "call_tool"
    /\ u_session # None
    /\ u_last.session_outcome.kind = "raised"
    /\ u_last.sent = <<[name |-> "nosuchtool", arguments |-> <<>>]>>
    /\ u_last.outcome = ReturnedValue([error |-> "Unknown tool: nosuchtool"])

-----------------------------------------------------------------------------
\* Claims about the tool handlers

\* the handler was called with an input its validation rejects
InvalidInput ==
    /\ h_call.op = "call"
    /\ \/ h_call.tool = "divide" /\ h_call.args[2] = 0
       \/ h_call.tool \in {"calculate_fibonacci", "fibonacci_stats"}
              /\ (h_call.args[1] < 1 \/ h_call.args[1] > 50)
       \/ h_call.tool = "process_large_dataset"
              /\ (h_call.args[1] < 1 \/ h_call.args[1] > 1000 \/ h_call.args[2] < 0)
       \/ h_call.tool = "analyze_logs"
              /\ (h_call.args[1] < 1 \/ h_call.args[1] > 5000
                  \/ h_call.args[2] < 0 \/ h_call.args[2] > Hundredths)

ErrorResult ==
    /\ h_call.outcome.kind = "returned"
    /\ DOMAIN h_call.outcome.value = {"error"}
    /\ h_call.sleeps = 0

\* C10 as stated: every handler (divide included) returns a rejected input
\* as a result with an error field.
C10_ValidationErrorsReturned == InvalidInput => ErrorResult

\* C10 as amended: the four streaming handlers return a rejected input as a
\* result holding only an error field; divide raises ValueError for b = 0.
C10_StreamingErrorsReturnedDivideRaises ==
    InvalidInput =>
        IF h_call.tool = "divide"
        THEN h_call.outcome = Raised("ValueError: Cannot divide by zero")
        ELSE ErrorResult

C10_Witness ==
    /\ InvalidInput
    /\ h_call.tool = "analyze_logs"
    /\ h_call.args = <<500, Hundredths + 1>>
    /\ ErrorResult

\* a returned float that is the whole number k
IsNumber(outcome, k) ==
    /\ outcome.kind = "returned"
    /\ outcome.value = [num |-> k, den |-> 1]

\* C11: divide(a, 0) ends in an error condition and returns no number;
\* divide(a, b) with b # 0 dividing a returns the exact quotient; add,
\* subtract and multiply return a + b, a - b and a * b.
C11_Arithmetic ==
    h_call.op = "call" =>
        LET a == h_call.args[1]
            b == h_call.args[2]
        IN  /\ h_call.tool = "divide" /\ b = 0 =>
                   /\ h_call.outcome.kind = "raised"
                   /\ h_call.outcome.value = "ValueError: Cannot divide by zero"
            /\ h_call.tool = "divide" /\ b # 0 =>
                   /\ h_call.outcome.kind = "returned"
                   /\ h_call.outcome.value.num * b = h_call.outcome.value.den * a
                   /\ \A q \in -9..9 : q * b = a => IsNumber(h_call.outcome, q)
            /\ h_call.tool = "add" => h_call.outcome = ReturnedValue(a + b)
            /\ h_call.tool = "subtract" => h_call.outcome = ReturnedValue(a - b)
            /\ h_call.tool = "multiply" => h_call.outcome = ReturnedValue(a * b)

C11_Witness ==
    /\ h_call.op = "call"
    /\ h_call.tool = "divide"
    /\ h_call.args = <<9, 3>>
    /\ IsNumber(h_call.outcome, 3)

\* the first ten Fibonacci numbers
FirstTen == <<0, 1, 1, 2, 3, 5, 8, 13, 21, 34>>

\* l is the Fibonacci sequence 0, 1, 1, 2, ... cut to its length
IsFibonacci(l) ==
    /\ \A i \in 1..Len(l) : i <= Len(FirstTen) => l[i] = PyInt(0, FirstTen[i])
    /\ \A i \in 3..Len(l) : l[i] = Plus(l[i - 1], l[i - 2])

\* C12: for 1 <= n <= 50 calculate_fibonacci(n) returns the first n
\* Fibonacci numbers, count = n and last_number = largest_number = the last
\* of them; for other n it returns only an error field and never sleeps.
C12_Fibonacci ==
    h_call.op = "call" /\ h_call.tool = "calculate_fibonacci" =>
        LET n == h_call.args[1]
            result == h_call.outcome.value
        IN  IF 1 <= n /\ n <= 50
            THEN /\ h_call.outcome.kind = "returned"
                 /\ "sequence" \in DOMAIN result
                 /\ Len(result.sequence) = n
                 /\ IsFibonacci(result.sequence)
                 /\ result.count = n
                 /\ result.last_number = result.sequence[n]
                 /\ result.largest_number = result.sequence[n]
            ELSE /\ h_call.outcome.kind = "returned"
                 /\ DOMAIN result = {"error"}
                 /\ h_call.sleeps = 0

-----------------------------------------------------------------------------
\* Claims about mcp_tool

LastItem(l) == l[Len(l)]

\* C13: in the bare and in the factory form a registration returns the
\* handler itself and appends one descriptor referencing it to the end of
\* the registry, the earlier descriptors staying as they were; the factory
\* form not applied to a handler leaves the registry unchanged.
C13_SameHandlerOneAppend ==
    m_call.op = "mcp_tool" =>
        IF m_call.form = "factory_only"
        THEN _mcp_tools = m_call.before
        ELSE /\ m_call.returns = m_call.func[1]
             /\ Len(_mcp_tools) = Len(m_call.before) + 1
             /\ SubSeq(_mcp_tools, 1, Len(m_call.before)) = m_call.before
             /\ LastItem(_mcp_tools).function = m_call.func[1]

C13_Witness ==
    /\ m_call.op = "mcp_tool"
    /\ m_call.form = "factory"
    /\ m_call.before # <<>>
    /\ m_call.before[1].function # m_call.func[1]
    /\ m_call.returns = m_call.func[1]
    /\ Len(_mcp_tools) = 2

\* t is s without its leading and trailing whitespace
IsTrimOf(t, s) ==
    \E i \in 1..(Len(s) + 1), j \in 0..Len(s) :
        /\ t = SubSeq(s, i, j)
        /\ \A k \in 1..(i - 1) : s[k] \in Whitespace
        /\ \A k \in (j + 1)..Len(s) : s[k] \in Whitespace
        /\ t # <<>> => t[1] \notin Whitespace /\ t[Len(t)] \notin Whitespace

DocOf(f) == IF f.__doc__ = None THEN <<>> ELSE f.__doc__[1]

\* the flag is stored by the streaming registry only
FlagStored ==
    variant = "streaming" =>
        LastItem(_mcp_tools).stream_enabled =
            (IF m_call.form = "bare" THEN TRUE ELSE m_call.stream_enabled)

\* C14 as stated: the descriptor holds the supplied name, else the handler's
\* identifier; the supplied description, else the trimmed docstring; and in
\* the streaming registry the supplied flag, true by default.
C14_SuppliedOrDefault ==
    m_call.op = "mcp_tool" /\ m_call.form # "factory_only" =>
        LET d == LastItem(_mcp_tools)
            f == m_call.func[1]
        IN  /\ d.name = IF m_call.name # None THEN m_call.name[1] ELSE f.__name__
            /\ IF m_call.description # None
               THEN d.description = m_call.description[1]
               ELSE IsTrimOf(d.description, DocOf(f))
            /\ FlagStored

\* C14 as amended: a supplied name or description counts only if it is not
\* the empty string; an empty one is treated like one not supplied.
C14_NonEmptySuppliedOrDefault ==
    m_call.op = "mcp_tool" /\ m_call.form # "factory_only" =>
        LET d == LastItem(_mcp_tools)
            f == m_call.func[1]
        IN  /\ d.name = IF m_call.name \notin {None, Some("")}
                        THEN m_call.name[1] ELSE f.__name__
            /\ IF m_call.description \notin {None, Some(<<>>)}
               THEN d.description = m_call.description[1]
               ELSE IsTrimOf(d.description, DocOf(f))
            /\ FlagStored

\* an empty description was supplied for a handler with a docstring
C14_Witness ==
    /\ m_call.op = "mcp_tool"
    /\ m_call.form = "factory"
    /\ m_call.name = Some("")
    /\ m_call.description = Some(<<>>)
    /\ m_call.func[1].__doc__ = Some(<<" ", "W", "\n">>)
    /\ LastItem(_mcp_tools).name = "get_weather"
    /\ LastItem(_mcp_tools).description = <<"W">>

-----------------------------------------------------------------------------
\* Claims about the returned lists

\* what a held list contains after the step
ContentNext(h) == IF h.alias THEN _mcp_tools' ELSE h.items

\* the held lists whose content the step changes
Changed == {j \in 1..Len(held) : ContentNext(held'[j]) # Content(held[j])}

\* C15: a step of a caller (changing a list it holds, or getting a list from
\* get_discovered_tools) changes neither the registry nor sys.modules nor
\* any other held list; a step of a discovery pass (clearing, registering,
\* returning) changes no held list; a returned list holds what the registry
\* holds at that moment.
C15_DefensiveCopies ==
    [][/\ Len(held') >= Len(held)
       /\ d_pc = "idle" /\ d_pc' = "idle" =>
              /\ _mcp_tools' = _mcp_tools
              /\ sys_modules' = sys_modules
              /\ Cardinality(Changed) <= 1
       /\ (d_pc # "idle" \/ d_pc' # "idle") => Changed = {}
       /\ Len(held') > Len(held) =>
              /\ Changed = {}
              /\ Content(held'[Len(held')]) = _mcp_tools]_vars

\* a caller changed the list of the first pass, the second pass rebuilt the
\* registry, and both lists and the registry now differ
C15_Witness ==
    /\ Len(held) = 2
    /\ passes = 2
    /\ d_pc = "idle"
    /\ ~held[1].alias /\ ~held[2].alias
    /\ Len(held[1].items) = 3
    /\ held[1].items[3] = ExtraItem
    /\ held[2].items # <<>>
    /\ held[2].items # _mcp_tools
    /\ held[1].items # held[2].items
    /\ _mcp_tools # <<>>

-----------------------------------------------------------------------------
\* Claims about the servers

\* the add_tool calls made are those for the first descriptors of the
\* discovery result, in its order
AddedInOrder ==
    /\ Len(s_added) <= Len(s_discovered)
    /\ \A i \in 1..Len(s_added) :
           /\ s_added[i].fn = s_discovered[i].function
           /\ s_added[i].name = s_discovered[i].name
           /\ s_added[i].description = s_discovered[i].description

ServerOrder ==
    /\ passes <= 1
    /\ s_pc = "start" => s_added = <<>> /\ s_last = NoCall
    /\ s_pc # "start" =>
           /\ passes = 1
           /\ d_pc = "idle"
           /\ last_returned.by = "discover_tools"
           /\ s_discovered = last_returned.value
    /\ AddedInOrder
    /\ s_pc = "serving" => Len(s_added) = Len(s_discovered)
    /\ s_last # NoCall => s_pc = "serving"
    /\ s_last # NoCall /\ s_last.op = "status" =>
           s_last.result.tools_count = Len(s_added)

\* C16: discovery runs once and has returned before the first add_tool;
\* the descriptors of its result are added once each in result order;
\* serving starts after the last of them; while the server serves, the
\* registry and the added tools stay as they are, and the status resource
\* reports as tools_count the number of tools added.
C16_DiscoverAddServe ==
    [][/\ ServerOrder'
       /\ s_pc = "serving" =>
              /\ _mcp_tools' = _mcp_tools
              /\ s_added' = s_added
              /\ s_discovered' = s_discovered
              /\ s_pc' = "serving"]_vars

C16_Witness ==
    /\ s_pc = "serving"
    /\ variant = "streaming"
    /\ Len(s_added) = 3
    /\ s_last # NoCall
    /\ s_last.op = "status"
    /\ s_last.result.tools_count = 3
    /\ failed # {}

-----------------------------------------------------------------------------
\* Claims about the rounds of a query

\* at most two completion calls; never more call_tool invocations than the
\* first answer requested, and exactly as many once the query has returned
TwoRounds(t) ==
    /\ Len(task[t].completions) <= 2
    /\ CallCount(t) <= Len(Requested(task[t].assistant_message))
    /\ task[t].pc = "returned" =>
           CallCount(t) = Len(Requested(task[t].assistant_message))
    /\ task[t].final_message # NoMessage => task[t].pc = "returned"

\* C17: a query makes at most two completion calls and as many call_tool
\* invocations as the first answer requested, whatever the second answer
\* holds, and it ends (returns or raises) once it has been started.
C17_AtMostTwoRounds ==
    /\ []TwoRounds("main")
    /\ (task["main"].pc = "list_tools") ~> (task["main"].pc \in {"returned", "raised"})

\* the second answer asked for a tool call, and the query returned
C17_Witness ==
    /\ task["main"].pc = "returned"
    /\ Requested(task["main"].final_message) # <<>>
    /\ Len(task["main"].completions) = 2
    /\ CallCount("main") = 2
    /\ task["main"].outcome = ReturnedValue(Some("5"))

-----------------------------------------------------------------------------
\* Claims about the conversation of a query

IsPrefix(l, k) == Len(l) <= Len(k) /\ SubSeq(k, 1, Len(l)) = l

\* the tool messages of caller t's own answered tool calls
OwnToolMessages(t) ==
    LET reqs == Requested(task[t].assistant_message)
        returns == SelectSeq(task[t].events, LAMBDA e : e.ev = "return")
        answered == SelectSeq(returns, LAMBDA e : e.result.content # <<>>
                                                  /\ e.result.content[1].type = "text")
    IN  [i \in 1..Len(answered) |->
            [role |-> "tool", tool_call_id |-> reqs[i].id,
             content |-> answered[i].result.content[1].text]]

\* the requests caller t has sent hold its own messages only
OwnMessagesOnly(t) ==
    LET sent == task[t].completions
        own == <<UserMessage(task[t].query), task[t].assistant_message>>
                   \o OwnToolMessages(t)
    IN  /\ Len(sent) >= 1 => sent[1].messages = <<UserMessage(task[t].query)>>
        /\ Len(sent) >= 2 => sent[2].messages = own
        /\ Answered(t) => task[t].messages = own

\* C18: the messages a query sends are its own (its user message in the
\* first round; its user message, its assistant message and its tool
\* results in the second), a step of one query leaves the conversation of
\* every other query alone, and within a query the conversation only grows.
C18_ConversationPerQuery ==
    [][\A t \in AllTasks :
           /\ OwnMessagesOnly(t)'
           /\ task'[t] # task[t] =>
                  \A u \in AllTasks \ {t} : task'[u] = task[u]
           /\ task'[t].pc \notin {"idle", "list_tools"} =>
                  IsPrefix(task[t].messages, task'[t].messages)]_vars

\* both queries are in their second round at the same time, each with its
\* own conversation
C18_Witness ==
    /\ task["main"].pc = "round2"
    /\ task["other"].pc = "round2"
    /\ task["main"].query = "what is 2+3"
    /\ Len(task["main"].messages) = 4
    /\ Len(task["other"].messages) = 3
    /\ task["other"].completions[2].messages[3].content = "rainy"
    /\ task["main"].completions[2].messages[3].content = "5"

-----------------------------------------------------------------------------
\* Claims about main of the universal client

Count(l, x) == Cardinality({i \in 1..Len(l) : l[i] = x})

MainActions == {"list_tools", "list_resources", "call_tool", "read_resource"}

\* the methods main called between connect and disconnect
ActionsDone == SelectSeq(um_trace, LAMBDA op : op \in MainActions)

\* an option counts as given when it is not None and not the empty string
GivenName(option) == option # None /\ option[1] # ""

GivenText(option) == option # None /\ option[1] # <<>>

\* the action the options ask for, by priority
Wanted ==
    IF um_args.list_tools THEN "list_tools"
    ELSE IF um_args.list_resources THEN "list_resources"
    ELSE IF GivenName(um_args.tool) THEN "call_tool"
    ELSE IF GivenName(um_args.resource) THEN "read_resource"
    ELSE "none"

\* disconnect() is called once, as the last call, on every path; at most one
\* action is performed, and only the one the options ask for
OneDisconnectOneAction ==
    /\ Count(um_trace, "disconnect") = (IF um_pc \in {"returned", "raised"} THEN 1 ELSE 0)
    /\ um_pc \in {"returned", "raised"} => um_trace[Len(um_trace)] = "disconnect"
    /\ Len(ActionsDone) <= 1
    /\ \A i \in 1..Len(ActionsDone) : ActionsDone[i] = Wanted
    /\ ActionsDone # <<>> => um_trace[1] = "connect" /\ Len(um_trace) >= 2

\* C19 as stated: ... and with --args that are not valid JSON no tool is
\* called.
C19_MainDisconnectsOnce ==
    /\ OneDisconnectOneAction
    /\ (um_args.args # None /\ ~json_loads(um_args.args[1]).ok) =>
           Count(um_trace, "call_tool") = 0

\* what main does guarantee: with non-empty --args that are not valid JSON no
\* tool is called, and a wanted tool call is left out for no other reason
MainDisconnectsOnceNonEmptyArgs ==
    /\ OneDisconnectOneAction
    /\ (GivenText(um_args.args) /\ ~json_loads(um_args.args[1]).ok) =>
           Count(um_trace, "call_tool") = 0
    /\ (um_pc \in {"returned", "raised"} /\ Wanted = "call_tool" /\ um_trace[1] = "connect"
            /\ Len(um_trace) = 2) =>
           (GivenText(um_args.args) /\ ~json_loads(um_args.args[1]).ok) \/ um_exc # None

\* the tool was called with {} for empty --args, and main disconnected
MainCalledWithEmptyArgs ==
    /\ um_pc = "returned"
    /\ um_args.args = Some(<<>>)
    /\ um_trace = <<"connect", "call_tool", "disconnect">>
    /\ u_session = None

-----------------------------------------------------------------------------
\* Claims about the state of UniversalMCPClient

SessionMethods == {"list_tools", "list_resources", "call_tool", "read_resource"}

\* disconnect() has returned, or connect() has raised
Closed ==
    \/ u_last.op = "disconnect"
    \/ u_last.op = "connect" /\ u_last.outcome.kind = "raised"

\* the method that has just ended raised "Not connected to server" and made
\* no session call
Refused ==
    /\ u_last'.outcome = NotConnected
    /\ u_last'.sent = <<>>

\* C20: after disconnect() returns or connect() fails, session and
\* client_context are None whether or not closing them raised, so that a
\* method called next raises "Not connected to server" without a session
\* call; the same holds before connect() has ever been called.
C20_ClosedClientRefuses ==
    /\ [](Closed => u_session = None /\ u_client_context = None)
    /\ [][(u_last'.op \in SessionMethods /\ (Closed \/ u_last.op = "none")) => Refused]_vars

\* what the guard does guarantee: a method called while session is None is
\* refused, which covers a client that was never connected
GuardRefuses ==
    [][(u_last'.op \in SessionMethods /\ u_session = None) => Refused]_vars

\* disconnect() returned and left the session set
SessionLeftSet ==
    /\ u_last.op = "disconnect"
    /\ u_session # None

====
